---- MODULE Spec2Model ----
(***************************************************************************)
(* Inkwell: the poll pipeline (src/pipeline/poll.ts over the SQLite state  *)
(* store), the ANF transformer (components.ts, document.ts, index.ts,      *)
(* validate.ts), the HTML allowlist sanitizer (html.ts), the extraction    *)
(* layer (sources, shared utilities, the Playwright fetcher) and the       *)
(* intermediary schema.                                                    *)
(*                                                                         *)
(* The specifications share the variables:                                 *)
(*   Spec            sequences of pollPublisher runs on one database       *)
(*   SpecPollAll     pollAll calls over lists of publishers                *)
(*   SpecStore       direct calls of the state store's functions           *)
(*   SpecAnf         transformToAnf applied to a bounded article           *)
(*   SpecComp        transformComponent applied to one component           *)
(*   SpecHtml        sanitizeHtml applied once and twice                   *)
(*   SpecIdentifier, SpecParse, SpecDiscover, SpecValidate, SpecIso        *)
(*                   one call of a function of the extraction layer        *)
(*   SpecFetcher     interleaved calls on one Playwright fetcher           *)
(***************************************************************************)
EXTENDS Integers, Sequences, FiniteSets, TLC

VARIABLES
    \* ---- the state store and one pollPublisher run --------------------
    db,            \* articles table: url -> row (url is the primary key)
    clock,         \* logical time: the number of runs started so far
    pc,            \* position of the pollPublisher call
    config,        \* config.id of the running call
    source,        \* the source's optional members, as far as the call has read them
    articles,      \* what scrapeArticles returned (urls, in order)
    scrapeable,    \* what getScrapeable returned (the rows' urls)
    todo,          \* rows of scrapeable the for loop has not reached yet
    result,        \* the PollResult under construction
    pending,       \* TRUE when the try block threw and finally is running
    initCalls,     \* calls of source.init in this run
    initDone,      \* source.init resolved in this run
    disposeCalls,  \* calls of source.dispose in this run
    attempted,     \* url -> calls of source.scrapeArticle(url) in this run
    wrote,         \* url -> completed writeArticle calls for it in this run
    dbAtStart,     \* db when the run started
    dbAtQuery,     \* db when getScrapeable ran (<<>> before that)
    \* ---- transformToAnf ----------------------------------------------
    article,       \* the input Article
    anfPc,         \* "idle", "ready", "assembling", "assembled",
                   \* "transforming", "returned", "threw"
    anfAcc,        \* assembleDocument's `components` and `warnings` so far
    anfIdx,        \* the body component the loop visits next
    anfOut,        \* what the call returned, if it returned
    component,     \* the input BodyComponent of one transformComponent call
    compPc,        \* "idle", "ready", "returned"
    compOut,       \* what transformComponent returned
    \* ---- sanitizeHtml ------------------------------------------------
    html,          \* the input string, as tokens
    htmlPc,        \* "idle", "ready", "once", "twice"
    out1,          \* sanitizeHtml(html)
    out2,          \* sanitizeHtml(sanitizeHtml(html))
    \* ---- one call of a function of the extraction and schema layers --
    fn,            \* the function called ("idle" when none)
    arg,           \* its argument
    ret,           \* <<>> until it ends; then [ok |-> TRUE, value |-> v] when
                   \* it returned v, [ok |-> FALSE] when it threw
    \* ---- one PlaywrightFetcher and the calls made on it ---------------
    fetcher,       \* the closure's sharedBrowser, sharedContext, sharedPage
    browsers,      \* every browser launched so far, with its context and page
    ops,           \* the init, dispose and fetchHtml calls made so far
    initCompleted, \* an init() resolved and no dispose() was called since
    \* ---- one pollAll call ---------------------------------------------
    all            \* its publishers, loop index, results, totals and position

pollVars == <<db, clock, pc, config, source, articles, scrapeable, todo, result,
              pending, initCalls, initDone, disposeCalls, attempted, wrote,
              dbAtStart, dbAtQuery>>
anfVars == <<article, anfPc, anfAcc, anfIdx, anfOut, component, compPc, compOut>>
htmlVars == <<html, htmlPc, out1, out2>>
callVars == <<fn, arg, ret>>
fetchVars == <<fetcher, browsers, ops, initCompleted>>
allVars == <<all>>
vars == <<pollVars, anfVars, htmlVars, callVars, fetchVars, allVars>>

\* ---------------------------------------------------------------- bounds
MaxRuns == 3          \* pollPublisher runs in one behaviour
MaxDiscovered == 2    \* length of the list one discovery returns
MaxHtmlLen == 4       \* tokens of an HTML input
MaxBody == 3          \* body components of an article
MaxUrlLen == 4        \* characters of a url after its host
MaxCards == 3         \* cards or items of a homepage

URLS == {"u1", "u2"}
PUBLISHERS == {"pubA", "pubB"}
NULL == <<>>

Range(s) == {s[i] : i \in DOMAIN s}
Count(x, s) == Cardinality({i \in DOMAIN s : s[i] = x})
SeqsUpTo(S, n) == UNION {[1..k -> S] : k \in 0..n}

\* ------------------------------------------------------- the state store
RECURSIVE InsertRowsTakingOver(_, _, _, _, _)
InsertRowsTakingOver(d, urls, p, now, i) ==
    IF i > Len(urls) THEN [db |-> d, changes |-> 0]
    ELSE IF urls[i] \in DOMAIN d
         THEN InsertRowsTakingOver([d EXCEPT ![urls[i]].publisherId = p],
                                   urls, p, now, i + 1)
         ELSE LET row == [publisherId |-> p, discoveredAt |-> <<now>>,
                          scrapedAt |-> NULL, status |-> "discovered",
                          error |-> NULL, outputPath |-> NULL]
                  rest == InsertRowsTakingOver(d @@ (urls[i] :> row), urls, p, now, i + 1)
              IN [db |-> rest.db, changes |-> rest.changes + 1]

RECURSIVE InsertRows(_, _, _, _, _)
InsertRows(d, urls, p, now, i) ==
    IF i > Len(urls) THEN [db |-> d, changes |-> 0]
    ELSE IF urls[i] \in DOMAIN d
         THEN InsertRows(d, urls, p, now, i + 1)
         ELSE LET row == [publisherId |-> p, discoveredAt |-> <<now>>,
                          scrapedAt |-> NULL, status |-> "discovered",
                          error |-> NULL, outputPath |-> NULL]
                  rest == InsertRows(d @@ (urls[i] :> row), urls, p, now, i + 1)
              IN [db |-> rest.db, changes |-> rest.changes + 1]

insertDiscoveredReplacing(d, urls, p, now) ==
    LET row == [publisherId |-> p, discoveredAt |-> <<now>>,
                scrapedAt |-> NULL, status |-> "discovered",
                error |-> NULL, outputPath |-> NULL]
        listed == Range(urls)
    IN [db |-> [v \in DOMAIN d \cup listed |-> IF v \in listed THEN row ELSE d[v]],
        changes |-> Cardinality(listed)]
insertDiscovered(d, urls, p, now) ==
    IF Len(urls) = 0 THEN [db |-> d, changes |-> 0]
    ELSE InsertRows(d, urls, p, now, 1)

getScrapeableNoStatus(d, p) == {u \in DOMAIN d : d[u].publisherId = p}
getScrapeableNoFailed(d, p) ==
    {u \in DOMAIN d : d[u].publisherId = p /\ d[u].status = "discovered"}
getScrapeable(d, p) ==
    {u \in DOMAIN d : d[u].publisherId = p /\ d[u].status \in {"discovered", "failed"}}

markScrapedKeepingError(d, u, outputPath, now) ==
    [v \in DOMAIN d |->
        IF v = u
        THEN [d[v] EXCEPT !.status = "scraped", !.scrapedAt = <<now>>,
                          !.outputPath = outputPath]
        ELSE d[v]]
markScraped(d, u, outputPath, now) ==
    [v \in DOMAIN d |->
        IF v = u
        THEN [d[v] EXCEPT !.status = "scraped", !.scrapedAt = <<now>>,
                          !.outputPath = outputPath, !.error = NULL]
        ELSE d[v]]

markFailedErrorOnly(d, u, message) ==
    [v \in DOMAIN d |-> IF v = u THEN [d[v] EXCEPT !.error = <<message>>] ELSE d[v]]
markFailed(d, u, message) ==
    [v \in DOMAIN d |->
        IF v = u
        THEN [d[v] EXCEPT !.status = "failed", !.error = <<message>>]
        ELSE d[v]]

buildOutputPath(p, u) == <<"output", p, u>>

\* ------------------------------------------------ HTML strings and cheerio
(* An HTML string is a sequence of tokens: text characters, start tags with  *)
(* their attribute names, end tags, and complete <script>…</script>          *)
(* elements. cheerio.load(html, {xml: false}, false) parses the string as an *)
(* HTML fragment with parse5 (the "in body" rules of the HTML tree           *)
(* construction algorithm) and $.html() serializes the tree; the tree is     *)
(* kept here as its serialization, a well-nested token sequence.             *)
Tok(k, tag, attrs) == [k |-> k, tag |-> tag, attrs |-> attrs]
Text(c) == Tok("text", c, {})
Open(tag, attrs) == Tok("open", tag, attrs)
Close(tag) == Tok("close", tag, {})
ScriptEl == Tok("raw", "script", {})
ScriptSrc == Tok("raw", "script", {<<"src", "u">>})

\* the tag categories of the tree construction algorithm, for the tags modelled
FORMATTING == {"a", "b", "em"}
SPECIAL == {"p", "div", "button", "script"}
IMPLIED_END == {"p"}
CLOSES_P == {"p", "div"}
BUTTON_SCOPE == {"button"}

EmptyParse == [out |-> <<>>, stack |-> <<>>, afe |-> <<>>, ok |-> TRUE]

PushEl(st, tag, attrs) ==
    [st EXCEPT !.out = Append(@, Open(tag, attrs)),
               !.stack = Append(@, [tag |-> tag, id |-> Len(st.out) + 1])]
PopEl(st) ==
    [st EXCEPT !.out = Append(@, Close(st.stack[Len(st.stack)].tag)),
               !.stack = SubSeq(@, 1, Len(@) - 1)]
RECURSIVE PopTo(_, _)
PopTo(st, n) == IF Len(st.stack) <= n THEN st ELSE PopTo(PopEl(st), n)

Max0(S) == IF S = {} THEN 0 ELSE CHOOSE m \in S : \A x \in S : x <= m
TopIndex(stack, tag) == Max0({i \in DOMAIN stack : stack[i].tag = tag})
StackIndex(stack, id) == Max0({i \in DOMAIN stack : stack[i].id = id})
InScope(stack, tag) == TopIndex(stack, tag) > 0
InButtonScope(stack, tag) ==
    LET i == TopIndex(stack, tag)
    IN i > 0 /\ \A j \in (i + 1)..Len(stack) : stack[j].tag \notin BUTTON_SCOPE

RECURSIVE GenImplied(_, _)
GenImplied(st, except) ==
    IF /\ Len(st.stack) > 0
       /\ st.stack[Len(st.stack)].tag \in IMPLIED_END \ {except}
    THEN GenImplied(PopEl(st), except)
    ELSE st

ClosePElement(st) ==
    LET s1 == GenImplied(st, "p")
    IN PopTo(s1, TopIndex(s1.stack, "p") - 1)

\* reconstruct the active formatting elements
RECURSIVE ReopenFrom(_, _)
ReopenFrom(st, i) ==
    IF i > Len(st.afe) THEN st
    ELSE LET s1 == PushEl(st, st.afe[i].tag, st.afe[i].attrs)
         IN ReopenFrom([s1 EXCEPT !.afe[i].id = Len(st.out) + 1], i + 1)
Reconstruct(st) ==
    ReopenFrom(st, 1 + Max0({j \in DOMAIN st.afe : StackIndex(st.stack, st.afe[j].id) > 0}))

RemoveAt(s, i) == SubSeq(s, 1, i - 1) \o SubSeq(s, i + 1, Len(s))

\* "any other end tag"
AnyOtherEndTag(st, tag) ==
    LET i == Max0({j \in DOMAIN st.stack :
                      st.stack[j].tag = tag \/ st.stack[j].tag \in SPECIAL})
    IN IF i > 0 /\ st.stack[i].tag = tag
       THEN PopTo(GenImplied(st, tag), i - 1)
       ELSE st

\* The adoption agency algorithm for an end tag of a formatting element,
\* without its loop over a furthest block: a run that would enter that loop
\* is marked ok = FALSE and lies outside the modelled inputs.
AdoptionAgency(st, tag) ==
    LET f == Max0({j \in DOMAIN st.afe : st.afe[j].tag = tag})
    IN IF f = 0 THEN AnyOtherEndTag(st, tag)
       ELSE LET si == StackIndex(st.stack, st.afe[f].id)
            IN IF si = 0 THEN [st EXCEPT !.afe = RemoveAt(@, f)]
               ELSE IF \E j \in (si + 1)..Len(st.stack) : st.stack[j].tag \in SPECIAL
               THEN [st EXCEPT !.ok = FALSE]
               ELSE [PopTo(st, si - 1) EXCEPT !.afe = RemoveAt(@, f)]

PushFormatting(st, tag, attrs) ==
    LET s1 == PushEl(Reconstruct(st), tag, attrs)
        same == {j \in DOMAIN st.afe : st.afe[j].tag = tag /\ st.afe[j].attrs = attrs}
    IN [s1 EXCEPT !.afe = Append(@, [tag |-> tag, id |-> s1.stack[Len(s1.stack)].id,
                                     attrs |-> attrs]),
                  !.ok = @ /\ Cardinality(same) < 3]

StartTag(st, tag, attrs) ==
    IF tag \in CLOSES_P
    THEN PushEl(IF InButtonScope(st.stack, "p") THEN ClosePElement(st) ELSE st, tag, attrs)
    ELSE IF tag = "button"
    THEN PushEl(Reconstruct(IF InScope(st.stack, "button")
                            THEN PopTo(GenImplied(st, ""), TopIndex(st.stack, "button") - 1)
                            ELSE st), tag, attrs)
    ELSE IF tag = "a"
    THEN PushFormatting(IF \E j \in DOMAIN st.afe : st.afe[j].tag = "a"
                        THEN AdoptionAgency(st, "a") ELSE st, tag, attrs)
    ELSE IF tag \in FORMATTING
    THEN PushFormatting(st, tag, attrs)
    ELSE PushEl(Reconstruct(st), tag, attrs)

EndTag(st, tag) ==
    IF tag = "p"
    THEN ClosePElement(IF InButtonScope(st.stack, "p") THEN st ELSE PushEl(st, "p", {}))
    ELSE IF tag \in {"div", "button"}
    THEN IF InScope(st.stack, tag)
         THEN PopTo(GenImplied(st, ""), TopIndex(st.stack, tag) - 1)
         ELSE st
    ELSE IF tag \in FORMATTING
    THEN AdoptionAgency(st, tag)
    ELSE AnyOtherEndTag(st, tag)

\* a character token; the serializer writes the character '<' as &lt;
TextChar(st, c) ==
    LET s1 == Reconstruct(st)
    IN [s1 EXCEPT !.out = Append(@, Text(IF c = "<" THEN "&lt;" ELSE c))]

TreeStep(st, tok) ==
    IF tok.k = "text" THEN TextChar(st, tok.tag)
    ELSE IF tok.k = "raw" THEN [st EXCEPT !.out = Append(@, tok)]
    ELSE IF tok.k = "open" THEN StartTag(st, tok.tag, tok.attrs)
    ELSE EndTag(st, tok.tag)

RECURSIVE TreeConstruct(_, _, _)
TreeConstruct(st, h, i) ==
    IF i > Len(h) THEN PopTo(st, 0)
    ELSE TreeConstruct(TreeStep(st, h[i]), h, i + 1)

\* cheerio.load(h, { xml: false }, false), as $.html() would write it
Load(h) == TreeConstruct(EmptyParse, h, 1)

\* ----------------------------------------------------------- sanitizeHtml
ALLOWED_TAGS == {"a", "b", "strong", "em", "i", "code", "del", "s", "sub", "sup",
                 "br", "ul", "ol", "li", "p", "pre", "blockquote"}
TAG_SUBSTITUTIONS == [mark |-> "b", cite |-> "em", u |-> "em", ins |-> "em"]

\* the end tag of the element whose start tag is dom[i]
RECURSIVE MatchClose(_, _, _)
MatchClose(dom, j, depth) ==
    IF dom[j].k = "open" THEN MatchClose(dom, j + 1, depth + 1)
    ELSE IF dom[j].k = "close"
         THEN IF depth = 1 THEN j ELSE MatchClose(dom, j + 1, depth - 1)
         ELSE MatchClose(dom, j + 1, depth)

Splice(dom, i, j, new) == SubSeq(dom, 1, i - 1) \o new \o SubSeq(dom, j + 1, Len(dom))

\* el.type !== 'tag': domhandler gives script and style elements the types
\* 'script' and 'style'
IsTag(tok) == tok.k = "open"

\* an attribute is a <<name, value>> pair
KeptAttrs(tag, attrs) == IF tag = "a" THEN {at \in attrs : at[1] = "href"} ELSE {}

\* one iteration of the loop over $('*').toArray().reverse(): the elements
\* are visited last start tag first, and a replacement only touches tokens
\* at or after the start tag visited
SanitizeElement(d, i) ==
    LET tok == d.dom[i] IN
    IF ~IsTag(tok) THEN d
    ELSE LET j == MatchClose(d.dom, i, 0)
             inner == SubSeq(d.dom, i + 1, j - 1)
         IN IF tok.tag \in DOMAIN TAG_SUBSTITUTIONS
            THEN LET sub == TAG_SUBSTITUTIONS[tok.tag]
                     new == Load(<<Open(sub, {})>> \o inner \o <<Close(sub)>>)
                 IN [dom |-> Splice(d.dom, i, j, new.out), ok |-> d.ok /\ new.ok]
            ELSE IF tok.tag \in ALLOWED_TAGS
            THEN [d EXCEPT !.dom[i].attrs = KeptAttrs(tok.tag, tok.attrs)]
            ELSE LET new == Load(inner)
                 IN [dom |-> Splice(d.dom, i, j, new.out), ok |-> d.ok /\ new.ok]

RECURSIVE SanitizeFrom(_, _)
SanitizeFrom(d, i) == IF i = 0 THEN d ELSE SanitizeFrom(SanitizeElement(d, i), i - 1)

Sanitize(h) ==
    IF Len(h) = 0 THEN [dom |-> <<>>, ok |-> TRUE]
    ELSE LET doc == Load(h)
         IN SanitizeFrom([dom |-> doc.out, ok |-> doc.ok], Len(doc.out))

sanitizeHtml(h) == Sanitize(h).dom

\* ------------------------------------------- transformers/anf/components
(* A string is a token sequence (plain text is a sequence of text tokens,   *)
(* the empty string is <<>>). An optional field is None or Some(value).     *)
Str(c) == <<Text(c)>>
None == <<>>
Some(v) == <<v>>
\* JavaScript truthiness of an optional string: present and not empty
Truthy(opt) == opt # None /\ opt[1] # <<>>

Warning(type, comp) == [type |-> type, component |-> comp]
\* ok(result)
Ok(r) == [result |-> Some(r), warnings |-> <<>>]

Min2(a, b) == IF a < b THEN a ELSE b
Max2(a, b) == IF a > b THEN a ELSE b

\* the html/text handling shared by transformParagraph and transformHeading
SanitizedTextAlwaysWarns(c, kind) ==
    IF c.format = "html"
    THEN [text |-> sanitizeHtml(c.text), warnings |-> <<Warning("html_sanitized", kind)>>]
    ELSE [text |-> c.text, warnings |-> <<>>]
SanitizedText(c, kind) ==
    IF c.format = "html"
    THEN LET sanitized == sanitizeHtml(c.text)
         IN IF sanitized # c.text
            THEN [text |-> sanitized, warnings |-> <<Warning("html_sanitized", kind)>>]
            ELSE [text |-> c.text, warnings |-> <<>>]
    ELSE [text |-> c.text, warnings |-> <<>>]

WithFormat(r, isHtml) == IF isHtml THEN r @@ [format |-> "html"] ELSE r

transformParagraph(c) ==
    LET t == SanitizedText(c, "paragraph")
    IN [result |-> Some(WithFormat([role |-> "body", text |-> t.text,
                                    textStyle |-> "default-body"], c.format = "html")),
        warnings |-> t.warnings]

transformHeadingUnclamped(c) ==
    LET t == SanitizedText(c, "heading")
    IN [result |-> Some(WithFormat([role |-> "heading" \o ToString(c.level), text |-> t.text,
                                    textStyle |-> "default-heading-" \o ToString(c.level)],
                                   c.format = "html")),
        warnings |-> t.warnings]
transformHeading(c) ==
    LET level == Max2(1, Min2(6, c.level))
        t == SanitizedText(c, "heading")
    IN [result |-> Some(WithFormat([role |-> "heading" \o ToString(level), text |-> t.text,
                                    textStyle |-> "default-heading-" \o ToString(level)],
                                   c.format = "html")),
        warnings |-> t.warnings]

appendAttribution(text, attribution) ==
    IF Truthy(attribution) THEN text \o Str("\n- ") \o attribution[1] ELSE text

transformBlockquote(c) ==
    Ok([role |-> "quote", text |-> appendAttribution(c.text, c.attribution),
        textStyle |-> "default-quote"])

transformPullquote(c) ==
    Ok([role |-> "pullquote", text |-> appendAttribution(c.text, c.attribution),
        textStyle |-> "default-pullquote"])

RECURSIVE ListItems(_, _)
ListItems(items, i) ==
    IF i > Len(items) THEN <<>>
    ELSE <<Open("li", {})>> \o items[i] \o <<Close("li")>> \o ListItems(items, i + 1)

transformList(c) ==
    LET tag == IF c.style = "ordered" THEN "ol" ELSE "ul"
    IN Ok([role |-> "body",
           text |-> <<Open(tag, {})>> \o ListItems(c.items, 1) \o <<Close(tag)>>,
           format |-> "html", textStyle |-> "default-body"])

\* escapeHtml: & < > " become entities, so no token of the result is markup
EscapedToken(tok) ==
    IF tok.k = "text"
    THEN Text(IF tok.tag = "<" THEN "&lt;"
              ELSE IF tok.tag = "&lt;" THEN "&amp;lt;" ELSE tok.tag)
    ELSE IF tok.k = "open" THEN Text("&lt;" \o tok.tag \o "&gt;")
    ELSE IF tok.k = "close" THEN Text("&lt;/" \o tok.tag \o "&gt;")
    ELSE Text("&lt;" \o tok.tag \o "&gt;&lt;/" \o tok.tag \o "&gt;")
escapeHtml(text) == [i \in DOMAIN text |-> EscapedToken(text[i])]

transformCodeBlock(c) ==
    Ok([role |-> "body",
        text |-> <<Open("pre", {})>> \o escapeHtml(c.code) \o <<Close("pre")>>,
        format |-> "html", textStyle |-> "default-monospace"])

transformPreformatted(c) ==
    Ok([role |-> "body",
        text |-> <<Open("pre", {})>> \o escapeHtml(c.text) \o <<Close("pre")>>,
        format |-> "html", textStyle |-> "default-monospace"])

Caption(text) == [text |-> text, textStyle |-> "default-caption"]

transformImage(c) ==
    LET base == [role |-> "photo", URL |-> c.url]
        withCaption ==
            IF Truthy(c.caption) /\ Truthy(c.credit)
            THEN base @@ [caption |-> Caption(c.caption[1] \o Str(" - ") \o c.credit[1])]
            ELSE IF Truthy(c.caption) THEN base @@ [caption |-> Caption(c.caption[1])]
            ELSE IF Truthy(c.credit) THEN base @@ [caption |-> Caption(c.credit[1])]
            ELSE base
    IN Ok(IF Truthy(c.altText)
          THEN withCaption @@ [accessibilityCaption |-> c.altText[1]]
          ELSE withCaption)

transformVideo(c) ==
    LET base == [role |-> "video", URL |-> c.url]
        withStill == IF Truthy(c.thumbnailUrl)
                     THEN base @@ [stillURL |-> c.thumbnailUrl[1]] ELSE base
    IN Ok(IF Truthy(c.caption) THEN withStill @@ [caption |-> c.caption[1]] ELSE withStill)

VIDEO_EMBED_PLATFORMS == {"youtube", "vimeo", "dailymotion"}
SOCIAL_EMBED_ROLES ==
    [x |-> "tweet", instagram |-> "instagram", facebook |-> "facebook_post",
     tiktok |-> "tiktok"]

transformEmbedAnchorOnly(c) ==
    IF c.platform \in VIDEO_EMBED_PLATFORMS \cup DOMAIN SOCIAL_EMBED_ROLES
    THEN Ok([role |-> "embedwebvideo", URL |-> c.embedUrl])
    ELSE [result |-> Some([role |-> "body",
                           text |-> <<Open("a", {<<"href", c.embedUrl>>})>>
                                    \o c.embedUrl \o <<Close("a")>>,
                           format |-> "html", textStyle |-> "default-body"]),
          warnings |-> <<Warning("unsupported_embed", "embed")>>]
transformEmbed(c) ==
    IF c.platform \in VIDEO_EMBED_PLATFORMS
    THEN Ok(IF Truthy(c.caption)
            THEN [role |-> "embedwebvideo", URL |-> c.embedUrl, caption |-> c.caption[1]]
            ELSE [role |-> "embedwebvideo", URL |-> c.embedUrl])
    ELSE IF c.platform \in DOMAIN SOCIAL_EMBED_ROLES
    THEN Ok([role |-> SOCIAL_EMBED_ROLES[c.platform], URL |-> c.embedUrl])
    ELSE LET warnings == <<Warning("unsupported_embed", "embed")>>
         IN IF Truthy(c.fallbackText)
            THEN [result |-> Some([role |-> "body", text |-> c.fallbackText[1],
                                   textStyle |-> "default-body"]),
                  warnings |-> warnings]
            ELSE [result |-> Some([role |-> "body",
                                   text |-> <<Open("a", {<<"href", c.embedUrl>>})>>
                                            \o c.embedUrl \o <<Close("a")>>,
                                   format |-> "html", textStyle |-> "default-body"]),
                  warnings |-> warnings]

RECURSIVE Cells(_, _, _)
Cells(row, tag, i) ==
    IF i > Len(row) THEN <<>>
    ELSE <<Open(tag, {})>> \o row[i] \o <<Close(tag)>> \o Cells(row, tag, i + 1)
RECURSIVE Rows(_, _, _)
Rows(rows, tag, i) ==
    IF i > Len(rows) THEN <<>>
    ELSE <<Open("tr", {})>> \o Cells(rows[i], tag, 1) \o <<Close("tr")>>
         \o Rows(rows, tag, i + 1)

transformTable(c) ==
    LET headerCount == IF c.headerRows = None THEN 0 ELSE c.headerRows[1]
        headerRows == SubSeq(c.rows, 1, Min2(headerCount, Len(c.rows)))
        bodyRows == SubSeq(c.rows, Min2(headerCount, Len(c.rows)) + 1, Len(c.rows))
        thead == IF Len(headerRows) > 0
                 THEN <<Open("thead", {})>> \o Rows(headerRows, "th", 1) \o <<Close("thead")>>
                 ELSE <<>>
    IN Ok([role |-> "htmltable",
           html |-> <<Open("table", {})>> \o thead \o <<Open("tbody", {})>>
                    \o Rows(bodyRows, "td", 1) \o <<Close("tbody"), Close("table")>>])

transformRawHtmlSilent(c) == [result |-> None, warnings |-> <<>>]
transformRawHtml(c) ==
    [result |-> None, warnings |-> <<Warning("dropped_component", "rawHtml")>>]

transformComponent(c) ==
    CASE c.type = "paragraph" -> transformParagraph(c)
      [] c.type = "heading" -> transformHeading(c)
      [] c.type = "blockquote" -> transformBlockquote(c)
      [] c.type = "pullquote" -> transformPullquote(c)
      [] c.type = "list" -> transformList(c)
      [] c.type = "codeBlock" -> transformCodeBlock(c)
      [] c.type = "preformatted" -> transformPreformatted(c)
      [] c.type = "image" -> transformImage(c)
      [] c.type = "video" -> transformVideo(c)
      [] c.type = "embed" -> transformEmbed(c)
      [] c.type = "divider" -> Ok([role |-> "divider"])
      [] c.type = "table" -> transformTable(c)
      [] c.type = "rawHtml" -> transformRawHtml(c)
      [] c.type = "adPlacement" -> Ok([role |-> "banner_advertisement", bannerType |-> "any"])

\* --------------------------------------------- transformers/anf/document
ROLE_TO_LAYOUT ==
    [body |-> "bodyLayout", heading1 |-> "headingLayout", heading2 |-> "headingLayout",
     heading3 |-> "headingLayout", heading4 |-> "headingLayout",
     heading5 |-> "headingLayout", heading6 |-> "headingLayout",
     photo |-> "photoLayout", quote |-> "quoteLayout", pullquote |-> "pullquoteLayout",
     divider |-> "dividerLayout", video |-> "videoLayout",
     embedwebvideo |-> "videoLayout", tweet |-> "socialEmbedLayout",
     instagram |-> "socialEmbedLayout", facebook_post |-> "socialEmbedLayout",
     tiktok |-> "socialEmbedLayout", htmltable |-> "tableLayout",
     banner_advertisement |-> "adLayout"]

\* (result as Record<string, unknown>).layout = layoutName
WithLayout(r) ==
    IF r.role \in DOMAIN ROLE_TO_LAYOUT
    THEN [layout |-> ROLE_TO_LAYOUT[r.role]] @@ r
    ELSE r

\* the header photo pushed first when the article has a thumbnail url
HeaderImage(thumbnail) ==
    IF Truthy(thumbnail[1].altText)
    THEN [role |-> "photo", URL |-> thumbnail[1].url, layout |-> "headerPhotoLayout",
          accessibilityCaption |-> thumbnail[1].altText[1]]
    ELSE [role |-> "photo", URL |-> thumbnail[1].url, layout |-> "headerPhotoLayout"]

HasThumbnailUrl(a) == a.thumbnail # None /\ a.thumbnail[1].url # <<>>

\* one iteration of `for (const bodyComponent of article.body)`
PushReversed(acc, t) ==
    [components |-> IF t.result # None
                    THEN <<WithLayout(t.result[1])>> \o acc.components
                    ELSE acc.components,
     warnings |-> acc.warnings \o t.warnings]
PushDroppingWarnings(acc, t) ==
    [components |-> IF t.result # None
                    THEN Append(acc.components, WithLayout(t.result[1]))
                    ELSE acc.components,
     warnings |-> IF t.result # None THEN acc.warnings \o t.warnings ELSE acc.warnings]
PushComponent(acc, t) ==
    [components |-> IF t.result # None
                    THEN Append(acc.components, WithLayout(t.result[1]))
                    ELSE acc.components,
     warnings |-> acc.warnings \o t.warnings]

\* `components` and `warnings` before the loop: the header photo, if any
Header(a) ==
    [components |-> IF HasThumbnailUrl(a) THEN <<HeaderImage(a.thumbnail)>> ELSE <<>>,
     warnings |-> <<>>]

\* the value assembleDocument returns once the loop is over
\* the names buildDefaultTextStyles and buildDefaultComponentLayouts define
DEFAULT_TEXT_STYLES ==
    {"default-body", "default-heading-1", "default-heading-2", "default-heading-3",
     "default-heading-4", "default-heading-5", "default-heading-6", "default-caption",
     "default-pullquote", "default-quote", "default-monospace"}
DEFAULT_COMPONENT_LAYOUTS ==
    {"bodyLayout", "headingLayout", "photoLayout", "headerPhotoLayout", "quoteLayout",
     "pullquoteLayout", "dividerLayout", "videoLayout", "socialEmbedLayout",
     "tableLayout", "adLayout"}
AssembleResult(a, acc) ==
    [document |-> [version |-> "1.9", title |-> a.title, language |-> a.language,
                   components |-> acc.components,
                   componentTextStyles |-> DEFAULT_TEXT_STYLES,
                   componentLayouts |-> DEFAULT_COMPONENT_LAYOUTS],
     warnings |-> acc.warnings]

\* anfDocumentSchema.parse succeeds. identifier, layout, componentTextStyles
\* and metadata are built from constants and from the article's urls and
\* dates; the articles drawn here carry well-formed urls and dates, so the
\* rules on those fields accept them.
validateNoMinComponents(d) ==
    /\ Len(d.version) >= 1
    /\ Len(d.title) >= 1
    /\ Len(d.language) >= 1
    /\ \A i \in DOMAIN d.components : Len(d.components[i].role) >= 1
validateAnfDocument(d) ==
    /\ Len(d.version) >= 1
    /\ Len(d.title) >= 1
    /\ Len(d.language) >= 1
    /\ Len(d.components) >= 1
    /\ \A i \in DOMAIN d.components : Len(d.components[i].role) >= 1

\* ------------------------------------------------------- pollPublisher
NoCalls == [u \in URLS |-> 0]

\* scrapeArticle resolves and writeArticle resolves; scrapeArticle rejects;
\* validateArticle throws in writeArticle; mkdir or writeFile rejects
ScrapeOutcomes == {"ok", "scrape failed", "validation failed", "write failed"}

\* Where the for loop goes after one row: the catch block swallows the
\* row's error, so the outcome does not matter, and the loop ends when no
\* row is left.
AfterRowHalting(rest, outcome) ==
    IF rest = {} \/ outcome # "ok" THEN "dispose" ELSE "scrape"
AfterRow(rest, outcome) == IF rest = {} THEN "dispose" ELSE "scrape"
EmptyResult(p) ==
    [publisherId |-> p, discovered |-> 0, scraped |-> 0, failed |-> 0,
     skipped |-> 0, errors |-> <<>>]

\* An ArticleSource may or may not define scrapeArticles, init and dispose
\* (sources/types.ts). The call reads each member once: scrapeArticles on
\* entry, init before the try block, dispose in the finally block; source
\* records "yes" or "no" once a member is read and "unread" before.
UnreadSource == [disc |-> "unread", init |-> "unread", disp |-> "unread"]
YesNo(b) == IF b THEN "yes" ELSE "no"
Ended == pc \in {"returned", "rejected"}

\* pollPublisher is called: the result object, and `if (!source.scrapeArticles)`
StartRun(p, hasScrapeArticles) ==
    /\ clock < MaxRuns
    /\ config' = p
    /\ source' = [UnreadSource EXCEPT !.disc = YesNo(hasScrapeArticles)]
    /\ result' = EmptyResult(p)
    /\ pc' = IF hasScrapeArticles THEN "init" ELSE "returned"
    /\ clock' = clock + 1
    /\ articles' = <<>>
    /\ scrapeable' = {}
    /\ todo' = {}
    /\ pending' = FALSE
    /\ initCalls' = 0
    /\ initDone' = FALSE
    /\ disposeCalls' = 0
    /\ attempted' = NoCalls
    /\ wrote' = NoCalls
    /\ dbAtStart' = db
    /\ dbAtQuery' = <<>>
    /\ UNCHANGED <<db, anfVars, htmlVars, callVars, fetchVars>>

PollStart ==
    /\ pc \in {"idle", "returned", "rejected"}
    /\ \E p \in PUBLISHERS, hasScrapeArticles \in BOOLEAN : StartRun(p, hasScrapeArticles)
    /\ UNCHANGED allVars

CallInit ==
    /\ pc = "init"
    /\ \E hasInit \in BOOLEAN :
        /\ source' = [source EXCEPT !.init = YesNo(hasInit)]
        /\ IF hasInit
           THEN /\ initCalls' = initCalls + 1
                /\ \E ok \in BOOLEAN :
                    /\ initDone' = ok
                    /\ pc' = IF ok THEN "discover" ELSE "rejected"
           ELSE /\ pc' = "discover"
                /\ UNCHANGED <<initCalls, initDone>>
    /\ UNCHANGED <<db, clock, config, articles, scrapeable, todo, result,
                   pending, disposeCalls, attempted, wrote, dbAtStart, dbAtQuery,
                   anfVars, htmlVars, callVars, fetchVars, allVars>>

\* scrapeArticles rejects: the try block is left through finally
DiscoverThrowsNoFinally ==
    /\ pc = "discover"
    /\ pending' = TRUE
    /\ pc' = "rejected"
    /\ UNCHANGED <<db, clock, config, source, articles, scrapeable, todo, result,
                   initCalls, initDone, disposeCalls, attempted, wrote, dbAtStart,
                   dbAtQuery, anfVars, htmlVars, callVars, fetchVars, allVars>>
DiscoverThrows ==
    /\ pc = "discover"
    /\ pending' = TRUE
    /\ pc' = "dispose"
    /\ UNCHANGED <<db, clock, config, source, articles, scrapeable, todo, result,
                   initCalls, initDone, disposeCalls, attempted, wrote, dbAtStart,
                   dbAtQuery, anfVars, htmlVars, callVars, fetchVars, allVars>>

Discover ==
    /\ pc = "discover"
    /\ \E arts \in SeqsUpTo(URLS, MaxDiscovered) :
        LET ins == insertDiscovered(db, arts, config, clock)
            rows == getScrapeable(ins.db, config)
        IN /\ articles' = arts
           /\ db' = ins.db
           /\ dbAtQuery' = ins.db
           /\ scrapeable' = rows
           /\ todo' = rows
           /\ result' = [result EXCEPT
                 !.discovered = ins.changes,
                 !.skipped = Len(arts) - ins.changes - (Cardinality(rows) - ins.changes)]
           /\ pc' = AfterRow(rows, "ok")
    /\ UNCHANGED <<clock, config, source, pending, initCalls, initDone,
                   disposeCalls, attempted, wrote, dbAtStart, anfVars, htmlVars, callVars, fetchVars, allVars>>

\* the for loop over scrapeable; the query has no ORDER BY, so any row of
\* the rest may be the next one
ScrapeOne ==
    /\ pc = "scrape"
    /\ \E u \in todo, outcome \in ScrapeOutcomes :
        /\ attempted' = [attempted EXCEPT ![u] = @ + 1]
        /\ IF outcome = "ok"
           THEN /\ wrote' = [wrote EXCEPT ![u] = @ + 1]
                /\ db' = markScraped(db, u, buildOutputPath(config, u), clock)
                /\ result' = [result EXCEPT !.scraped = @ + 1]
           ELSE /\ wrote' = wrote
                /\ db' = markFailed(db, u, outcome)
                /\ result' = [result EXCEPT !.failed = @ + 1,
                                            !.errors = Append(@, <<u, outcome>>)]
        /\ todo' = todo \ {u}
        /\ pc' = AfterRow(todo \ {u}, outcome)
    /\ UNCHANGED <<clock, config, source, articles, scrapeable, pending, initCalls,
                   initDone, disposeCalls, dbAtStart, dbAtQuery, anfVars, htmlVars, callVars, fetchVars, allVars>>

Finally(threw) == IF pending \/ threw THEN "rejected" ELSE "returned"

Dispose ==
    /\ pc = "dispose"
    /\ \E hasDispose \in BOOLEAN :
        /\ source' = [source EXCEPT !.disp = YesNo(hasDispose)]
        /\ IF hasDispose
           THEN /\ disposeCalls' = disposeCalls + 1
                /\ \E threw \in BOOLEAN : pc' = Finally(threw)
           ELSE /\ pc' = Finally(FALSE)
                /\ UNCHANGED disposeCalls
    /\ UNCHANGED <<db, clock, config, articles, scrapeable, todo, result,
                   pending, initCalls, initDone, attempted, wrote, dbAtStart,
                   dbAtQuery, anfVars, htmlVars, callVars, fetchVars, allVars>>

PollInit ==
    /\ db = <<>>
    /\ clock = 0
    /\ pc = "idle"
    /\ config = "pubA"
    /\ source = UnreadSource
    /\ articles = <<>>
    /\ scrapeable = {}
    /\ todo = {}
    /\ result = EmptyResult("pubA")
    /\ pending = FALSE
    /\ initCalls = 0
    /\ initDone = FALSE
    /\ disposeCalls = 0
    /\ attempted = NoCalls
    /\ wrote = NoCalls
    /\ dbAtStart = <<>>
    /\ dbAtQuery = <<>>

AnfIdle ==
    /\ article = <<>>
    /\ anfPc = "idle"
    /\ anfOut = <<>>
    /\ component = <<>>
    /\ compPc = "idle"
    /\ compOut = <<>>
    /\ anfAcc = <<>>
    /\ anfIdx = 0
HtmlIdle == html = <<>> /\ htmlPc = "idle" /\ out1 = <<>> /\ out2 = <<>>
CallIdle == fn = "idle" /\ arg = <<>> /\ ret = <<>>

FetcherNew ==
    /\ fetcher = [sharedBrowser |-> 0, sharedContext |-> 0, sharedPage |-> 0]
    /\ browsers = <<>>
    /\ ops = <<>>
    /\ initCompleted = FALSE

EmptyTotals == [discovered |-> 0, scraped |-> 0, failed |-> 0, skipped |-> 0]
AllIdle ==
    all = [pc |-> "idle", publishers |-> <<>>, idx |-> 0, results |-> <<>>,
           totals |-> EmptyTotals]

Init == PollInit /\ AnfIdle /\ HtmlIdle /\ CallIdle /\ FetcherNew /\ AllIdle

\* ------------------------------------ transformComponent on one component
X == Text("x")
DirtyHtml == <<Open("div", {}), X, Close("div")>>
HtmlSamples == {<<>>, <<X>>, <<Open("p", {}), X, Close("p")>>, DirtyHtml, <<ScriptEl>>}
OptStrings == {None, Some(<<>>), Some(Str("s"))}
Url == Str("https://e.test/a")

AllComponents ==
    {[type |-> "paragraph", text |-> t, format |-> f] :
        t \in HtmlSamples, f \in {"text", "html", "markdown"}}
    \cup {[type |-> "heading", level |-> l, text |-> t, format |-> f] :
        l \in {0, 1, 3, 6, 7}, t \in {<<X>>, DirtyHtml}, f \in {"text", "html"}}
    \cup {[type |-> ty, text |-> <<X>>, attribution |-> at] :
        ty \in {"blockquote", "pullquote"}, at \in OptStrings}
    \cup {[type |-> "list", style |-> st, items |-> it] :
        st \in {"ordered", "unordered"}, it \in {<<Str("a")>>, <<Str("a"), DirtyHtml>>}}
    \cup {[type |-> "codeBlock", code |-> t] : t \in HtmlSamples}
    \cup {[type |-> "preformatted", text |-> t] : t \in HtmlSamples}
    \cup {[type |-> "image", url |-> Url, caption |-> ca, credit |-> cr, altText |-> al] :
        ca \in OptStrings, cr \in OptStrings, al \in {None, Some(Str("alt"))}}
    \cup {[type |-> "video", url |-> Url, thumbnailUrl |-> th, caption |-> ca] :
        th \in {None, Some(Url)}, ca \in OptStrings}
    \cup {[type |-> "embed", platform |-> pl, embedUrl |-> Url, caption |-> ca,
           fallbackText |-> fb] :
        pl \in {"youtube", "vimeo", "dailymotion", "facebook", "instagram", "tiktok",
                "x", "other"},
        ca \in {None, Some(Str("s"))}, fb \in OptStrings}
    \cup {[type |-> "divider"]}
    \cup {[type |-> "table", rows |-> << <<Str("Name"), Str("Age")>>, <<Str("A"), Str("30")>> >>,
           headerRows |-> hr] : hr \in {None, Some(0), Some(1), Some(5)}}
    \cup {[type |-> "rawHtml", html |-> t] : t \in HtmlSamples}
    \cup {[type |-> "adPlacement", slot |-> Str("top")]}

CompInit ==
    /\ component \in AllComponents
    /\ compPc = "ready"
    /\ compOut = <<>>
    /\ article = <<>>
    /\ anfPc = "idle"
    /\ anfOut = <<>>
    /\ anfAcc = <<>>
    /\ anfIdx = 0

TransformComponent ==
    /\ compPc = "ready"
    /\ compOut' = transformComponent(component)
    /\ compPc' = "returned"
    /\ UNCHANGED <<component, article, anfPc, anfAcc, anfIdx, anfOut, pollVars, htmlVars, callVars, fetchVars, allVars>>

NextComp == TransformComponent
InitComp == PollInit /\ CompInit /\ HtmlIdle /\ CallIdle /\ FetcherNew /\ AllIdle
SpecComp == InitComp /\ [][NextComp]_vars

\* ------------------------------------ assembleDocument and transformToAnf
Embed(pl, fb) ==
    [type |-> "embed", platform |-> pl, embedUrl |-> Url, caption |-> None,
     fallbackText |-> fb]
BodyComponents ==
    {[type |-> "paragraph", text |-> DirtyHtml, format |-> "html"],
     [type |-> "heading", level |-> 7, text |-> <<X>>, format |-> "text"],
     [type |-> "image", url |-> Url, caption |-> Some(Str("s")), credit |-> None,
      altText |-> None],
     [type |-> "rawHtml", html |-> DirtyHtml],
     Embed("other", None), Embed("other", Some(Str("s"))), Embed("youtube", None)}

Articles ==
    [title : {<<>>, Str("Title")}, language : {Str("en")},
     thumbnail : {None, Some([url |-> Url, altText |-> None])},
     body : SeqsUpTo(BodyComponents, MaxBody)]

AnfInit ==
    /\ article \in Articles
    /\ anfPc = "ready"
    /\ anfOut = None
    /\ component = <<>>
    /\ compPc = "idle"
    /\ compOut = <<>>
    /\ anfAcc = <<>>
    /\ anfIdx = 0

\* a direct call of assembleDocument, up to the loop over the body
AssembleDocument ==
    /\ anfPc = "ready"
    /\ anfPc' = "assembling"
    /\ anfAcc' = Header(article)
    /\ anfIdx' = 1
    /\ UNCHANGED <<article, anfOut, component, compPc, compOut, pollVars, htmlVars, callVars, fetchVars, allVars>>

\* transformToAnf calls assembleDocument
TransformToAnf ==
    /\ anfPc = "ready"
    /\ anfPc' = "transforming"
    /\ anfAcc' = Header(article)
    /\ anfIdx' = 1
    /\ UNCHANGED <<article, anfOut, component, compPc, compOut, pollVars, htmlVars, callVars, fetchVars, allVars>>

\* whether the object transformComponent returns for c is c itself: every
\* branch builds its result as a new object literal
ResultIsInputForParagraphs(c) == c.type = "paragraph"
ResultIsInput(c) == FALSE

\* the body component after `result.layout = layoutName`: the assignment
\* writes to the object transformComponent returned
AfterLayoutAssignment(c, t) ==
    IF ResultIsInput(c) /\ t.result # None /\ t.result[1].role \in DOMAIN ROLE_TO_LAYOUT
    THEN [layout |-> ROLE_TO_LAYOUT[t.result[1].role]] @@ c
    ELSE c

\* one iteration of the loop over article.body
TransformBodyComponent ==
    /\ anfPc \in {"assembling", "transforming"}
    /\ anfIdx <= Len(article.body)
    /\ \E t \in {transformComponent(article.body[anfIdx])} :
          /\ anfAcc' = PushComponent(anfAcc, t)
          /\ article' = [article EXCEPT !.body[anfIdx] = AfterLayoutAssignment(@, t)]
    /\ anfIdx' = anfIdx + 1
    /\ UNCHANGED <<anfPc, anfOut, component, compPc, compOut, pollVars, htmlVars, callVars, fetchVars, allVars>>

\* assembleDocument returns to its direct caller
ReturnAssembled ==
    /\ anfPc = "assembling"
    /\ anfIdx > Len(article.body)
    /\ anfOut' = Some(AssembleResult(article, anfAcc))
    /\ anfPc' = "assembled"
    /\ UNCHANGED <<article, anfAcc, anfIdx, component, compPc, compOut, pollVars, htmlVars, callVars, fetchVars, allVars>>

\* transformToAnf validates the assembled document: validateAnfDocument
\* throws a ZodError, or the document and the warnings are returned
Validate ==
    /\ anfPc = "transforming"
    /\ anfIdx > Len(article.body)
    /\ \E a \in {AssembleResult(article, anfAcc)} :
          IF validateAnfDocument(a.document)
          THEN anfOut' = Some(a) /\ anfPc' = "returned"
          ELSE anfOut' = None /\ anfPc' = "threw"
    /\ UNCHANGED <<article, anfAcc, anfIdx, component, compPc, compOut, pollVars, htmlVars, callVars, fetchVars, allVars>>

NextAnf ==
    \/ AssembleDocument
    \/ TransformToAnf
    \/ TransformBodyComponent
    \/ ReturnAssembled
    \/ Validate
InitAnf == PollInit /\ AnfInit /\ HtmlIdle /\ CallIdle /\ FetcherNew /\ AllIdle
SpecAnf == InitAnf /\ [][NextAnf]_vars

\* --------------------------------------- sanitizeHtml applied once, twice
HtmlAlphabet ==
    {Text("x"), Text("<"), ScriptEl, ScriptSrc,
     Open("a", {<<"href", "u">>, <<"class", "c">>}), Close("a"),
     Open("mark", {})}
    \cup {Open(t, {}) : t \in {"p", "div", "button"}}
    \cup {Close(t) : t \in {"p", "div", "button"}}

\* the inputs whose parse stays within the modelled part of the tree
\* construction algorithm, in both passes
HtmlInputs ==
    {h \in SeqsUpTo(HtmlAlphabet, MaxHtmlLen) :
        Sanitize(h).ok /\ Sanitize(sanitizeHtml(h)).ok}

HtmlInit ==
    /\ html \in HtmlInputs
    /\ htmlPc = "ready"
    /\ out1 = <<>>
    /\ out2 = <<>>

SanitizeOnce ==
    /\ htmlPc = "ready"
    /\ out1' = sanitizeHtml(html)
    /\ htmlPc' = "once"
    /\ UNCHANGED <<html, out2, pollVars, anfVars, callVars, fetchVars, allVars>>

SanitizeTwice ==
    /\ htmlPc = "once"
    /\ out2' = sanitizeHtml(out1)
    /\ htmlPc' = "twice"
    /\ UNCHANGED <<html, out1, pollVars, anfVars, callVars, fetchVars, allVars>>

NextHtml == SanitizeOnce \/ SanitizeTwice
InitHtml == PollInit /\ AnfIdle /\ HtmlInit /\ CallIdle /\ FetcherNew /\ AllIdle
SpecHtml == InitHtml /\ [][NextHtml]_vars

Next ==
    \/ PollStart
    \/ CallInit
    \/ DiscoverThrows
    \/ Discover
    \/ ScrapeOne
    \/ Dispose

Spec == Init /\ [][Next]_vars

\* ------------------------------------------------------- buildIdentifier
(* A url or an identifier is a sequence of characters. ORIGIN stands for     *)
(* the scheme and host of an absolute url, written as one character; the    *)
(* urls drawn have it first or not at all, and a path, query or fragment     *)
(* after it.                                                                 *)
ORIGIN == "https://e.test"
ARTICLE == <<"a", "r", "t", "i", "c", "l", "e">>
IDENTIFIER_MAX == 64

\* new URL(u) does not throw
IsAbsolute(u) == Len(u) > 0 /\ u[1] = ORIGIN

\* new URL(u).pathname: what follows the host, up to the query or fragment
pathname(u) ==
    LET rest == Tail(u)
        stops == {i \in DOMAIN rest : rest[i] \in {"?", "#"}}
        stop == IF stops = {} THEN Len(rest) + 1
                ELSE CHOOSE i \in stops : \A j \in stops : i <= j
        path == SubSeq(rest, 1, stop - 1)
    IN IF path = <<>> THEN <<"/">> ELSE path

\* s.split('/'), from position i on, with cur the segment being read
RECURSIVE SplitFrom(_, _, _)
SplitFrom(s, i, cur) ==
    IF i > Len(s) THEN <<cur>>
    ELSE IF s[i] = "/" THEN <<cur>> \o SplitFrom(s, i + 1, <<>>)
    ELSE SplitFrom(s, i + 1, Append(cur, s[i]))
Split(s) == SplitFrom(s, 1, <<>>)
NonEmpty(seg) == Len(seg) > 0

extractSlug(u) ==
    IF ~IsAbsolute(u) THEN ARTICLE
    ELSE LET segments == SelectSeq(Split(pathname(u)), NonEmpty)
         IN IF Len(segments) = 0 THEN ARTICLE ELSE segments[Len(segments)]

buildIdentifierUncut(publisherId, u) == publisherId \o <<"-">> \o extractSlug(u)
buildIdentifier(publisherId, u) ==
    LET raw == publisherId \o <<"-">> \o extractSlug(u)
    IN SubSeq(raw, 1, Min2(IDENTIFIER_MAX, Len(raw)))

\* article.source.canonicalUrl ?? article.source.url
CanonicalOrUrl(src) == IF src.canonicalUrl # None THEN src.canonicalUrl[1] ELSE src.url
\* the identifier assembleDocument gives the document
DocumentIdentifier(src) == buildIdentifier(src.publisherId, CanonicalOrUrl(src))

Repeat(c, n) == [i \in 1..n |-> c]
PublisherIds == {Repeat("p", n) : n \in {0, 3, 57, 62, 63, 70}}
UrlTails ==
    {t \in SeqsUpTo({"/", "a", "b", "?", "#"}, MaxUrlLen) :
        t = <<>> \/ t[1] \in {"/", "?", "#"}}
Urls == UrlTails \cup {<<ORIGIN>> \o t : t \in UrlTails}
SourceUrls == {<<>>, <<ORIGIN>>, <<ORIGIN, "/", "b">>}
Sources ==
    [publisherId : PublisherIds, url : SourceUrls,
     canonicalUrl : {None} \cup {Some(u) : u \in Urls}]

IdentifierInit == fn = "buildIdentifier" /\ arg \in Sources /\ ret = <<>>
BuildIdentifier ==
    /\ fn = "buildIdentifier"
    /\ ret = <<>>
    /\ ret' = [ok |-> TRUE, value |-> DocumentIdentifier(arg)]
    /\ UNCHANGED <<fn, arg, pollVars, anfVars, htmlVars, fetchVars, allVars>>

NextIdentifier == BuildIdentifier
InitIdentifier == PollInit /\ AnfIdle /\ HtmlIdle /\ IdentifierInit /\ FetcherNew /\ AllIdle
SpecIdentifier == InitIdentifier /\ [][NextIdentifier]_vars

\* ------------------------------------------------- sources: parseArticle
(* A page is described by the structures the parsers look for. A Ghost     *)
(* page: whether it holds an Article JSON-LD block and an og:title, the     *)
(* content containers present with the children of each, and whether the    *)
(* url matches a Ghost publisher. An ITV page: its __NEXT_DATA__ script      *)
(* (absent, malformed, without article, or with the article given).         *)
CONTENT_SELECTORS == <<".post__content", ".gh-content", ".post-content", "article .content">>
El(tag, inner) == [tag |-> tag, html |-> inner]

\* ghost.ts convertElement, for the elements drawn
convertElement(el) ==
    IF el.tag = "p"
    THEN IF el.html = <<>> THEN None
         ELSE Some([type |-> "paragraph", text |-> el.html, format |-> "html"])
    ELSE IF el.tag \in {"h2", "h3", "h4"}
    THEN Some([type |-> "heading",
               level |-> CASE el.tag = "h2" -> 2 [] el.tag = "h3" -> 3 [] OTHER -> 4,
               text |-> SelectSeq(el.html, LAMBDA tok : tok.k = "text"),
               format |-> "text"])
    ELSE IF el.tag = "hr" THEN Some([type |-> "divider"])
    ELSE None

\* `for (const sel of CONTENT_SELECTORS)`, then the fallback $('article')
RECURSIVE FirstPresent(_, _)
FirstPresent(containers, i) ==
    IF i > Len(CONTENT_SELECTORS) THEN "article"
    ELSE IF CONTENT_SELECTORS[i] \in DOMAIN containers THEN CONTENT_SELECTORS[i]
    ELSE FirstPresent(containers, i + 1)
findContentRoot(page) == FirstPresent(page.containers, 1)

\* `if (converted) body.push(converted)` over the converted children
RECURSIVE ConvertAll(_, _)
ConvertAll(converted, i) ==
    IF i > Len(converted) THEN <<>>
    ELSE converted[i] \o ConvertAll(converted, i + 1)

ghostBuildBody(page) ==
    LET root == findContentRoot(page)
    IN IF root \in DOMAIN page.containers
       THEN ConvertAll([j \in DOMAIN page.containers[root] |->
                        convertElement(page.containers[root][j])], 1)
       ELSE <<>>

ghostTitle(page) ==
    IF page.jsonLd THEN Str("headline")
    ELSE IF page.ogTitle THEN Str("og title") ELSE Str("Untitled")

ghostParse(page) ==
    IF ~page.urlMatches THEN [ok |-> FALSE]
    ELSE [ok |-> TRUE,
          value |-> [title |-> ghostTitle(page), body |-> ghostBuildBody(page)]]

\* itv-news.ts convertBlock, for the blocks drawn
convertBlock(block) ==
    IF block.nodeType = "paragraph"
    THEN IF block.html = <<>> THEN None
         ELSE Some([type |-> "paragraph", text |-> block.html, format |-> "html"])
    ELSE IF block.nodeType = "heading-2"
    THEN Some([type |-> "heading", level |-> 2, text |-> block.html, format |-> "text"])
    ELSE IF block.nodeType = "hr" THEN Some([type |-> "divider"])
    ELSE None

itvTitle(page) ==
    IF page.article.title # None THEN page.article.title[1]
    ELSE IF page.jsonLd THEN Str("headline")
    ELSE IF page.ogTitle THEN Str("og title") ELSE Str("Untitled")

itvParse(page) ==
    IF page.nextData \in {"absent", "malformed"} THEN [ok |-> FALSE]
    ELSE IF page.nextData = "no article" THEN [ok |-> FALSE]
    ELSE [ok |-> TRUE,
          value |-> [title |-> itvTitle(page),
                     body |-> IF page.article.content = None THEN <<>>
                              ELSE ConvertAll([j \in DOMAIN page.article.content[1] |->
                                               convertBlock(page.article.content[1][j])], 1)]]

GhostChildren ==
    {<<>>, <<El("p", <<X>>)>>, <<El("p", <<>>), El("h2", <<X>>), El("span", <<X>>)>>,
     <<El("hr", <<>>)>>}
GhostContainers ==
    UNION {[S -> GhostChildren] : S \in SUBSET {".post__content", ".gh-content", "article"}}
GhostPages ==
    [jsonLd : BOOLEAN, ogTitle : BOOLEAN, urlMatches : BOOLEAN, containers : GhostContainers]
Block(nodeType, inner) == [nodeType |-> nodeType, html |-> inner]
ItvContents ==
    {<<>>, <<Block("paragraph", <<X>>)>>,
     <<Block("paragraph", <<>>), Block("heading-2", <<X>>), Block("table", <<X>>)>>}
ItvPages ==
    [nextData : {"absent", "malformed", "no article"}, jsonLd : BOOLEAN, ogTitle : BOOLEAN,
     article : {None}]
    \cup [nextData : {"article"}, jsonLd : BOOLEAN, ogTitle : BOOLEAN,
          article : [title : {None, Some(Str("title"))},
                     content : {None} \cup {Some(c) : c \in ItvContents}]]

ParseInit ==
    /\ ret = <<>>
    /\ \/ fn = "ghost.parseArticle" /\ arg \in GhostPages
       \/ fn = "itv-news.parseArticle" /\ arg \in ItvPages
GhostParseArticle ==
    /\ fn = "ghost.parseArticle"
    /\ ret = <<>>
    /\ ret' = ghostParse(arg)
    /\ UNCHANGED <<fn, arg, pollVars, anfVars, htmlVars, fetchVars, allVars>>
ItvParseArticle ==
    /\ fn = "itv-news.parseArticle"
    /\ ret = <<>>
    /\ ret' = itvParse(arg)
    /\ UNCHANGED <<fn, arg, pollVars, anfVars, htmlVars, fetchVars, allVars>>

NextParse == GhostParseArticle \/ ItvParseArticle
InitParse == PollInit /\ AnfIdle /\ HtmlIdle /\ ParseInit /\ FetcherNew /\ AllIdle
SpecParse == InitParse /\ [][NextParse]_vars

\* ------------------------------------------------ sources: parseArticles
(* Links are character sequences like urls; "news/", "d/" (a date segment    *)
(* YYYY-MM-DD/) and "r/" (a region segment) are written as one character.    *)
ITV_ORIGIN == "https://www.itv.com"
ORIGINS == {ORIGIN, ITV_ORIGIN}
GHOST_HOME == <<ORIGIN, "/">>
Entry(u, title) == [url |-> u, title |-> title]

\* new URL(link, base).href for a link that is absolute, starts with "/",
\* or is relative to the directory of base
Resolve(link, base) ==
    IF link[1] \in ORIGINS THEN (IF Len(link) = 1 THEN link \o <<"/">> ELSE link)
    ELSE IF link[1] = "/" THEN <<base[1]>> \o link
    ELSE LET slashes == {i \in DOMAIN base : base[i] = "/"}
             dir == IF slashes = {} THEN Len(base)
                    ELSE CHOOSE i \in slashes : \A j \in slashes : j <= i
         IN IF slashes = {} THEN base \o <<"/">> \o link
            ELSE SubSeq(base, 1, dir) \o link

\* the seen-set loop shared by the three discovery functions: found holds
\* what each card gave (None, or Some(entry)), in the order visited
RECURSIVE KeepAll(_, _, _)
KeepAll(found, i, kept) ==
    IF i > Len(found) THEN kept
    ELSE KeepAll(found, i + 1, IF found[i] = None THEN kept ELSE Append(kept, found[i][1]))
RECURSIVE KeepUnseen(_, _, _)
KeepUnseen(found, i, kept) ==
    IF i > Len(found) THEN kept
    ELSE IF found[i] # None /\ \A k \in DOMAIN kept : kept[k].url # found[i][1].url
         THEN KeepUnseen(found, i + 1, Append(kept, found[i][1]))
         ELSE KeepUnseen(found, i + 1, kept)

\* ghost.ts extractCard
extractCard(card, baseUrl) ==
    IF ~Truthy(card.href) THEN None
    ELSE IF card.title = <<>> THEN None
    ELSE Some(Entry(Resolve(card.href[1], baseUrl), card.title))

ghostDiscover(page) ==
    IF ~page.urlMatches THEN [ok |-> FALSE]
    ELSE [ok |-> TRUE,
          value |-> KeepUnseen([i \in DOMAIN page.cards |->
                                   extractCard(page.cards[i], GHOST_HOME)], 1, <<>>)]

\* ITV_ARTICLE_LINK_PATTERN.test(link): news/, region segments, a date, a slug
MatchesLinkPattern(link) ==
    /\ Len(link) >= 3
    /\ link[1] = "news/"
    /\ link[Len(link) - 1] = "d/"
    /\ link[Len(link)] \in {"a", "b"}
    /\ \A k \in 2..(Len(link) - 2) : link[k] \in {"news/", "r/"}

\* itv-news.ts addItem; items of `latest` get the "news/" prefix first
addItem(item) ==
    LET link == IF item.section = "latest" /\ Truthy(item.link)
                THEN Some(<<"news/">> \o item.link[1]) ELSE item.link
    IN IF ~Truthy(item.title) \/ ~Truthy(link) THEN None
       ELSE IF item.externalUrl THEN None
       ELSE IF ~MatchesLinkPattern(link[1]) THEN None
       ELSE Some(Entry(<<ITV_ORIGIN, "/">> \o link[1], item.title[1]))

\* href.match(/\/news\/(?:[\w-]+\/)*(\d{4}-\d{2}-\d{2}\/[\w-]+)/)
MatchesHrefPattern(href) ==
    \E i \in DOMAIN href : \E j \in DOMAIN href :
        /\ href[i] = "/"
        /\ i + 1 < j
        /\ href[i + 1] = "news/"
        /\ href[j] = "d/"
        /\ j + 1 <= Len(href)
        /\ href[j + 1] \in {"a", "b"}
        /\ \A k \in (i + 2)..(j - 1) : href[k] \in {"news/", "r/"}

domAnchor(anchor) ==
    IF anchor.href = <<>> THEN None
    ELSE IF ~MatchesHrefPattern(anchor.href) THEN None
    ELSE Some(Entry(Resolve(anchor.href, <<ITV_ORIGIN>>),
                    IF anchor.text = <<>> THEN Str("Untitled") ELSE anchor.text))

discoverFromDom(page) ==
    KeepUnseen([i \in DOMAIN page.anchors |-> domAnchor(page.anchors[i])], 1, <<>>)

\* topStories and popular, then collections, then latest
SECTIONS == <<"topStories", "popular", "collections", "latest">>
InSection(items, s) == SelectSeq(items, LAMBDA it : it.section = s)
BySection(items) ==
    InSection(items, SECTIONS[1]) \o InSection(items, SECTIONS[2])
        \o InSection(items, SECTIONS[3]) \o InSection(items, SECTIONS[4])

itvDiscover(page) ==
    IF ~page.nextData THEN [ok |-> TRUE, value |-> discoverFromDom(page)]
    ELSE LET items == BySection(page.items)
             found == KeepUnseen([i \in DOMAIN items |-> addItem(items[i])], 1, <<>>)
         IN [ok |-> TRUE,
             value |-> IF Len(found) > 0 THEN found ELSE discoverFromDom(page)]

Titles == {Str("t1"), Str("t2")}
GhostCards ==
    [href : {None, Some(<<>>), Some(<<"/", "a">>), Some(<<"a">>),
             Some(<<ORIGIN, "/", "a">>), Some(<<"/", "b">>)},
     title : Titles \cup {<<>>}]
GhostHomepages ==
    [urlMatches : {TRUE}, cards : SeqsUpTo(GhostCards, MaxCards)]
    \cup [urlMatches : {FALSE}, cards : {<<>>}]
Item(section, title, link, external) ==
    [section |-> section, title |-> title, link |-> link, externalUrl |-> external]
ItvItems ==
    {Item("topStories", Some(Str("t1")), Some(<<"news/", "d/", "a">>), FALSE),
     Item("popular", Some(Str("t2")), Some(<<"news/", "r/", "d/", "a">>), FALSE),
     Item("popular", None, Some(<<"news/", "d/", "a">>), FALSE),
     Item("collections", Some(Str("t1")), Some(<<"news/", "d/", "b">>), TRUE),
     Item("collections", Some(Str("t2")), Some(<<"watch/", "a">>), FALSE),
     Item("collections", Some(Str("t2")), Some(<<"news/", "d/", "a">>), FALSE),
     Item("latest", Some(Str("t2")), Some(<<"d/", "a">>), FALSE),
     Item("latest", Some(Str("t1")), None, FALSE)}
Anchor(href, text) == [href |-> href, text |-> text]
ItvAnchors ==
    {<<>>,
     <<Anchor(<<"/", "news/", "d/", "a">>, Str("t1")),
       Anchor(<<ITV_ORIGIN, "/", "news/", "d/", "a">>, Str("t2"))>>,
     <<Anchor(<<"/", "about">>, Str("t1")), Anchor(<<"/", "news/", "r/", "d/", "b">>, <<>>),
       Anchor(<<"/", "news/", "r/", "d/", "b">>, Str("t2"))>>}
ItvHomepages ==
    [nextData : {TRUE}, items : SeqsUpTo(ItvItems, MaxCards), anchors : ItvAnchors]
    \cup [nextData : {FALSE}, items : {<<>>}, anchors : ItvAnchors]

DiscoverInit ==
    /\ ret = <<>>
    /\ \/ fn = "ghost.parseArticles" /\ arg \in GhostHomepages
       \/ fn = "itv-news.parseArticles" /\ arg \in ItvHomepages
GhostParseArticles ==
    /\ fn = "ghost.parseArticles"
    /\ ret = <<>>
    /\ ret' = ghostDiscover(arg)
    /\ UNCHANGED <<fn, arg, pollVars, anfVars, htmlVars, fetchVars, allVars>>
ItvParseArticles ==
    /\ fn = "itv-news.parseArticles"
    /\ ret = <<>>
    /\ ret' = itvDiscover(arg)
    /\ UNCHANGED <<fn, arg, pollVars, anfVars, htmlVars, fetchVars, allVars>>

NextDiscover == GhostParseArticles \/ ItvParseArticles
InitDiscover == PollInit /\ AnfIdle /\ HtmlIdle /\ DiscoverInit /\ FetcherNew /\ AllIdle
SpecDiscover == InitDiscover /\ [][NextDiscover]_vars

\* --------------------------------------------------------- validateArticle
(* A candidate component is a record holding the keys that are present. The  *)
(* candidates drawn carry a well-formed source, metadata dates and authors,   *)
(* so the rules on those fields accept them.                                  *)
TEXT_FORMATS == {"text", "html", "markdown"}
PLATFORMS == {"youtube", "vimeo", "dailymotion", "facebook", "instagram", "tiktok", "x", "other"}
WELL_FORMED_URLS == {Url}
REQUIRED_KEYS ==
    [paragraph |-> {"type", "text", "format"},
     heading |-> {"type", "level", "text", "format"},
     blockquote |-> {"type", "text"},
     pullquote |-> {"type", "text"},
     list |-> {"type", "style", "items"},
     codeBlock |-> {"type", "code"},
     preformatted |-> {"type", "text"},
     image |-> {"type", "url"},
     video |-> {"type", "url"},
     embed |-> {"type", "platform", "embedUrl"},
     divider |-> {"type"},
     table |-> {"type", "rows"},
     rawHtml |-> {"type", "html"},
     adPlacement |-> {"type", "slot"}]
OPTIONAL_KEYS ==
    [paragraph |-> {}, heading |-> {}, list |-> {}, preformatted |-> {}, divider |-> {},
     rawHtml |-> {}, adPlacement |-> {},
     blockquote |-> {"attribution"},
     pullquote |-> {"attribution"},
     codeBlock |-> {"language"},
     image |-> {"caption", "credit", "altText", "mediaRef"},
     video |-> {"thumbnailUrl", "caption", "credit", "duration"},
     embed |-> {"caption", "fallbackText"},
     table |-> {"headerRows"}]

\* the rules of the variant schemas on the values of the keys present
FieldAccepted(c, key) ==
    CASE key = "level" -> c.level \in 1..6
      [] key = "format" -> c.format \in TEXT_FORMATS
      [] key = "style" -> c.style \in {"ordered", "unordered"}
      [] key = "items" -> Len(c.items) >= 1
      [] key = "rows" -> Len(c.rows) >= 1
      [] key = "platform" -> c.platform \in PLATFORMS
      [] key \in {"url", "embedUrl", "thumbnailUrl"} -> c[key] \in WELL_FORMED_URLS
      [] key = "headerRows" -> c.headerRows >= 0
      [] key = "duration" -> c.duration > 0
      [] OTHER -> TRUE

\* bodyComponentSchema, a discriminated union on `type`, accepts c
ComponentAccepted(c) ==
    /\ "type" \in DOMAIN c
    /\ c.type \in DOMAIN REQUIRED_KEYS
    /\ REQUIRED_KEYS[c.type] \subseteq DOMAIN c
    /\ \A key \in DOMAIN c \cap (REQUIRED_KEYS[c.type] \cup OPTIONAL_KEYS[c.type]) :
          FieldAccepted(c, key)

\* what z.object gives for an accepted component: the keys of the schema
ParsedComponent(c) ==
    [key \in DOMAIN c \cap (REQUIRED_KEYS[c.type] \cup OPTIONAL_KEYS[c.type]) |-> c[key]]

validateArticle(a) ==
    IF /\ Len(a.title) >= 1
       /\ Len(a.body) >= 1
       /\ \A i \in DOMAIN a.body : ComponentAccepted(a.body[i])
    THEN [ok |-> TRUE,
          value |-> [title |-> a.title,
                     body |-> [i \in DOMAIN a.body |-> ParsedComponent(a.body[i])]]]
    ELSE [ok |-> FALSE]

CandidateComponents ==
    {[type |-> "paragraph", text |-> <<X>>, format |-> "html"],
     [type |-> "paragraph", text |-> <<X>>],
     [type |-> "heading", level |-> 2, text |-> <<X>>, format |-> "text"],
     [type |-> "heading", level |-> 7, text |-> <<X>>, format |-> "text"],
     [type |-> "list", style |-> "ordered", items |-> <<>>],
     [type |-> "image", url |-> Url, altText |-> Str("alt")],
     [type |-> "image", url |-> Url, width |-> 600, height |-> 400],
     [type |-> "embed", platform |-> "myspace", embedUrl |-> Url],
     [type |-> "divider"],
     [type |-> "unknown", text |-> <<X>>]}
CandidateArticles ==
    [title : {<<>>, Str("Title")}, body : SeqsUpTo(CandidateComponents, MaxBody)]

ValidateInit == fn = "validateArticle" /\ arg \in CandidateArticles /\ ret = <<>>
ValidateArticle ==
    /\ fn = "validateArticle"
    /\ ret = <<>>
    /\ ret' = validateArticle(arg)
    /\ UNCHANGED <<fn, arg, pollVars, anfVars, htmlVars, fetchVars, allVars>>

NextValidate == ValidateArticle
InitValidate == PollInit /\ AnfIdle /\ HtmlIdle /\ ValidateInit /\ FetcherNew /\ AllIdle
SpecValidate == InitValidate /\ [][NextValidate]_vars

\* ------------------------------------------------- html utilities: ensureIso
(* A date string is the sequence of its parts: a calendar date            *)
(* `YYYY-MM-DD` (counted in days), the letter T, a time `HH:mm:00`         *)
(* (counted in minutes of the day), a fraction `.sss`, and a zone: `Z`, an *)
(* offset `+HH:mm` or `+HHmm`. A publisher's textual date ("February 10,   *)
(* 2026") and a string that is no date are one part each. An instant is a  *)
(* count of milliseconds.                                                  *)
DatePart(d) == [k |-> "date", day |-> d]
TimePart(m) == [k |-> "time", min |-> m]
Fraction(ms) == [k |-> "frac", ms |-> ms]
Offset(m, colon) == [k |-> "offset", min |-> m, colon |-> colon]
Zulu == [k |-> "Z"]
LetterT == [k |-> "T"]
Textual(d) == [k |-> "textual", day |-> d]
NoDate == [k |-> "nodate"]
NaN == None

\* /\d{4}-\d{2}-\d{2}T\d{2}:\d{2}:\d{2}/.test(date): the pattern is not anchored
MatchesIsoPattern(date) ==
    \E i \in 1..(Len(date) - 2) :
        date[i].k = "date" /\ date[i + 1].k = "T" /\ date[i + 2].k = "time"
\* date.endsWith("Z")
EndsWithZ(date) == Len(date) > 0 /\ date[Len(date)].k = "Z"
\* /[+-]\d{2}:\d{2}$/.test(date)
EndsWithOffset(date) ==
    Len(date) > 0 /\ date[Len(date)].k = "offset" /\ date[Len(date)].colon

\* Date.parse of the engine, for the strings drawn: the date-time forms of
\* ECMAScript (a date alone is UTC), a textual date read in the local zone
\* of the process (tz minutes east of UTC), and NaN for the rest.
DateParse(date, tz) ==
    IF Len(date) = 1 /\ date[1].k = "date" THEN Some(date[1].day * 1440 * 60000)
    ELSE IF Len(date) = 1 /\ date[1].k = "textual"
    THEN Some((date[1].day * 1440 - tz) * 60000)
    ELSE IF Len(date) >= 3 /\ date[1].k = "date" /\ date[2].k = "T" /\ date[3].k = "time"
    THEN LET rest == SubSeq(date, 4, Len(date))
             ms == IF rest # <<>> /\ rest[1].k = "frac" THEN rest[1].ms ELSE 0
             zone == IF rest # <<>> /\ rest[1].k = "frac" THEN Tail(rest) ELSE rest
             wall == (date[1].day * 1440 + date[3].min) * 60000 + ms
         IN IF zone = <<>> THEN Some(wall - tz * 60000)
            ELSE IF zone = <<Zulu>> THEN Some(wall)
            ELSE IF Len(zone) = 1 /\ zone[1].k = "offset"
            THEN Some(wall - zone[1].min * 60000)
            ELSE NaN
    ELSE NaN
\* Date.prototype.toISOString: `YYYY-MM-DDTHH:mm:ss.sssZ`, always with the
\* three fraction digits
toISOString(t) ==
    <<DatePart(t \div (1440 * 60000)), LetterT,
      TimePart((t % (1440 * 60000)) \div 60000), Fraction(t % 60000), Zulu>>

\* new Date(date).toISOString() throws a RangeError for an invalid date
ensureIso(date, tz) ==
    IF MatchesIsoPattern(date) /\ ~EndsWithZ(date) /\ ~EndsWithOffset(date)
    THEN [ok |-> TRUE, value |-> date \o <<Zulu>>]
    ELSE IF DateParse(date, tz) = NaN THEN [ok |-> FALSE]
    ELSE [ok |-> TRUE, value |-> toISOString(DateParse(date, tz)[1])]

\* z.string().datetime() of metadataSchema: date, T, time, an optional
\* fraction, and Z; no offset and no zone-less time
DatetimeAccepts(s) ==
    /\ Len(s) \in {4, 5}
    /\ s[1].k = "date" /\ s[2].k = "T" /\ s[3].k = "time"
    /\ s[Len(s)].k = "Z"
    /\ Len(s) = 5 => s[4].k = "frac"

Days == {1, 2}
Minutes == {0, 720, 1380}
Fractions == {<<>>, <<Fraction(0)>>, <<Fraction(500)>>}
Zones == {<<>>, <<Zulu>>, <<Offset(0, TRUE)>>, <<Offset(60, TRUE)>>,
          <<Offset(-60, TRUE)>>, <<Offset(60, FALSE)>>}
DateTimes ==
    {<<DatePart(d), LetterT, TimePart(m)>> \o f \o z :
        d \in Days, m \in Minutes, f \in Fractions, z \in Zones}
DateStrings ==
    DateTimes \cup {<<DatePart(d)>> : d \in Days}
              \cup {<<Textual(d)>> : d \in Days} \cup {<<NoDate>>}
LocalZones == {0, 60}

\* two dates of one process are normalised, one call after the other
IsoInit ==
    /\ fn = "ensureIso"
    /\ arg \in [dates : DateStrings \X DateStrings, tz : LocalZones]
    /\ ret = <<>>
EnsureIso ==
    /\ fn = "ensureIso"
    /\ Len(ret) < Len(arg.dates)
    /\ \E t \in {ensureIso(arg.dates[Len(ret) + 1], arg.tz)} : ret' = Append(ret, t)
    /\ UNCHANGED <<fn, arg, pollVars, anfVars, htmlVars, fetchVars, allVars>>

NextIso == EnsureIso
InitIso == PollInit /\ AnfIdle /\ HtmlIdle /\ IsoInit /\ FetcherNew /\ AllIdle
SpecIso == InitIso /\ [][NextIso]_vars

\* ------------------------------------------------ shared/playwright.ts
(* One fetcher made by createPlaywrightFetcher and the calls made on it.   *)
(* Every call is an async function: it runs to its first await when it is  *)
(* called and one step at each await after that, so the steps of calls in  *)
(* flight interleave. A browser holds at most one context with one page;  *)
(* browser, context and page are named by the browser's index. launch,     *)
(* newContext, newPage, goto, onLoad and content may reject; close         *)
(* resolves. browser.close() closes the browser's context and page.        *)
MaxOps == 3
\* `null` in sharedBrowser, sharedContext and sharedPage: no browser has index 0
NoRef == 0
Browser(by) == [open |-> TRUE, context |-> "none", url |-> "none", by |-> by]
Closed(b) ==
    [b EXCEPT !.open = FALSE,
              !.context = IF @ = "open" THEN "closed" ELSE @]
PageUsable(b) == browsers[b].open /\ browsers[b].context = "open"
Op(kind, at) ==
    [kind |-> kind, pc |-> at, url |-> "none", page |-> NoRef, browser |-> NoRef,
     shared |-> FALSE, afterInit |-> FALSE, threw |-> FALSE, value |-> "none"]
Live == {i \in DOMAIN ops : ops[i].pc \notin {"resolved", "rejected"}}
Settle(o) == [o EXCEPT !.pc = IF o.threw THEN "rejected" ELSE "resolved"]

\* init(): `if (!sharedBrowser)` and the call of chromium.launch
CallFetcherInit ==
    /\ Len(ops) < MaxOps
    /\ IF fetcher.sharedBrowser = NoRef
       THEN /\ ops' = Append(ops, Op("init", "launch"))
            /\ UNCHANGED initCompleted
       ELSE /\ ops' = Append(ops, Op("init", "resolved"))
            /\ initCompleted' = TRUE
    /\ UNCHANGED <<fetcher, browsers, pollVars, anfVars, htmlVars, callVars, allVars>>
\* sharedBrowser = await chromium.launch(...), then sharedBrowser.newContext()
InitLaunch ==
    \E i \in Live, ok \in BOOLEAN :
        /\ ops[i].kind = "init" /\ ops[i].pc = "launch"
        /\ IF ok
           THEN /\ browsers' = Append(browsers, Browser(i))
                /\ fetcher' = [fetcher EXCEPT !.sharedBrowser = Len(browsers) + 1]
                /\ ops' = [ops EXCEPT ![i].pc = "newContext",
                                      ![i].browser = Len(browsers) + 1]
           ELSE /\ ops' = [ops EXCEPT ![i].pc = "rejected", ![i].threw = TRUE]
                /\ UNCHANGED <<browsers, fetcher>>
        /\ UNCHANGED <<initCompleted, pollVars, anfVars, htmlVars, callVars, allVars>>
\* sharedContext = await sharedBrowser.newContext(), then sharedContext.newPage()
InitNewContext ==
    \E i \in Live, ok \in BOOLEAN :
        /\ ops[i].kind = "init" /\ ops[i].pc = "newContext"
        /\ IF ok /\ browsers[ops[i].browser].open
           THEN /\ browsers' = [browsers EXCEPT ![ops[i].browser].context = "open"]
                /\ fetcher' = [fetcher EXCEPT !.sharedContext = ops[i].browser]
                /\ ops' = [ops EXCEPT ![i].pc = "newPage"]
           ELSE /\ ops' = [ops EXCEPT ![i].pc = "rejected", ![i].threw = TRUE]
                /\ UNCHANGED <<browsers, fetcher>>
        /\ UNCHANGED <<initCompleted, pollVars, anfVars, htmlVars, callVars, allVars>>
\* sharedPage = await sharedContext.newPage(), and init() resolves
InitNewPage ==
    \E i \in Live, ok \in BOOLEAN :
        /\ ops[i].kind = "init" /\ ops[i].pc = "newPage"
        /\ IF ok /\ PageUsable(ops[i].browser)
           THEN /\ browsers' = [browsers EXCEPT ![ops[i].browser].url = "about:blank"]
                /\ fetcher' = [fetcher EXCEPT !.sharedPage = ops[i].browser]
                /\ ops' = [ops EXCEPT ![i].pc = "resolved"]
                /\ initCompleted' = TRUE
           ELSE /\ ops' = [ops EXCEPT ![i].pc = "rejected", ![i].threw = TRUE]
                /\ UNCHANGED <<browsers, fetcher, initCompleted>>
        /\ UNCHANGED <<pollVars, anfVars, htmlVars, callVars, allVars>>

\* dispose(): `sharedPage = null` and the first close it calls
CallDispose ==
    /\ Len(ops) < MaxOps
    /\ fetcher' = [fetcher EXCEPT !.sharedPage = NoRef]
    /\ initCompleted' = FALSE
    /\ ops' = Append(ops,
          IF fetcher.sharedContext # NoRef
          THEN [Op("dispose", "closeContext") EXCEPT !.browser = fetcher.sharedContext]
          ELSE IF fetcher.sharedBrowser # NoRef
          THEN [Op("dispose", "closeBrowser") EXCEPT !.browser = fetcher.sharedBrowser]
          ELSE Op("dispose", "resolved"))
    /\ UNCHANGED <<browsers, pollVars, anfVars, htmlVars, callVars, allVars>>
\* await sharedContext.close(); sharedContext = null; if (sharedBrowser) ...
DisposeCloseContext ==
    \E i \in Live :
        /\ ops[i].kind = "dispose" /\ ops[i].pc = "closeContext"
        /\ browsers' = [browsers EXCEPT ![ops[i].browser].context =
                            IF @ = "open" THEN "closed" ELSE @]
        /\ fetcher' = [fetcher EXCEPT !.sharedContext = NoRef]
        /\ ops' = [ops EXCEPT ![i] =
              IF fetcher.sharedBrowser # NoRef
              THEN [@ EXCEPT !.pc = "closeBrowser", !.browser = fetcher.sharedBrowser]
              ELSE [@ EXCEPT !.pc = "resolved"]]
        /\ UNCHANGED <<initCompleted, pollVars, anfVars, htmlVars, callVars, allVars>>
\* await sharedBrowser.close(); sharedBrowser = null
DisposeCloseBrowser ==
    \E i \in Live :
        /\ ops[i].kind = "dispose" /\ ops[i].pc = "closeBrowser"
        /\ browsers' = [browsers EXCEPT ![ops[i].browser] = Closed(@)]
        /\ fetcher' = [fetcher EXCEPT !.sharedBrowser = NoRef]
        /\ ops' = [ops EXCEPT ![i].pc = "resolved"]
        /\ UNCHANGED <<initCompleted, pollVars, anfVars, htmlVars, callVars, allVars>>

\* fetchHtml(url): `if (sharedPage)` and the call of page.goto on the shared
\* page, or the call of chromium.launch
CallFetchHtml ==
    /\ Len(ops) < MaxOps
    /\ \E u \in URLS :
        ops' = Append(ops,
            IF fetcher.sharedPage # NoRef
            THEN [Op("fetchHtml", "goto") EXCEPT
                    !.url = u, !.page = fetcher.sharedPage, !.shared = TRUE,
                    !.afterInit = initCompleted]
            ELSE [Op("fetchHtml", "launch") EXCEPT
                    !.url = u, !.afterInit = initCompleted])
    /\ UNCHANGED <<fetcher, browsers, initCompleted, pollVars, anfVars, htmlVars, callVars, allVars>>
\* const browser = await chromium.launch(...): outside the try blocks
FetchLaunch ==
    \E i \in Live, ok \in BOOLEAN :
        /\ ops[i].kind = "fetchHtml" /\ ops[i].pc = "launch"
        /\ IF ok
           THEN /\ browsers' = Append(browsers, Browser(i))
                /\ ops' = [ops EXCEPT ![i].pc = "newContext",
                                      ![i].browser = Len(browsers) + 1]
           ELSE /\ ops' = [ops EXCEPT ![i].pc = "rejected", ![i].threw = TRUE]
                /\ UNCHANGED browsers
        /\ UNCHANGED <<fetcher, initCompleted, pollVars, anfVars, htmlVars, callVars, allVars>>
\* const context = await browser.newContext(): inside the outer try only
FetchNewContext ==
    \E i \in Live, ok \in BOOLEAN :
        /\ ops[i].kind = "fetchHtml" /\ ops[i].pc = "newContext"
        /\ IF ok
           THEN /\ browsers' = [browsers EXCEPT ![ops[i].browser].context = "open"]
                /\ ops' = [ops EXCEPT ![i].pc = "newPage"]
           ELSE /\ ops' = [ops EXCEPT ![i].pc = "closeBrowser", ![i].threw = TRUE]
                /\ UNCHANGED browsers
        /\ UNCHANGED <<fetcher, initCompleted, pollVars, anfVars, htmlVars, callVars, allVars>>
\* const page = await context.newPage(): inside the outer try only
FetchNewPage ==
    \E i \in Live, ok \in BOOLEAN :
        /\ ops[i].kind = "fetchHtml" /\ ops[i].pc = "newPage"
        /\ IF ok
           THEN /\ browsers' = [browsers EXCEPT ![ops[i].browser].url = "about:blank"]
                /\ ops' = [ops EXCEPT ![i].pc = "goto", ![i].page = ops[i].browser]
           ELSE /\ ops' = [ops EXCEPT ![i].pc = "closeBrowser", ![i].threw = TRUE]
                /\ UNCHANGED browsers
        /\ UNCHANGED <<fetcher, initCompleted, pollVars, anfVars, htmlVars, callVars, allVars>>

\* where a fetchHtml call goes when fetchWithPage threw or returned: a call
\* on the shared page ends, a call on a temporary page runs its finally blocks
AfterFetchWithPage(o) == IF o.shared THEN Settle(o) ELSE [o EXCEPT !.pc = "closeContext"]
\* await page.goto(url, ...)
Goto ==
    \E i \in Live, ok \in BOOLEAN :
        /\ ops[i].kind = "fetchHtml" /\ ops[i].pc = "goto"
        /\ IF ok /\ PageUsable(ops[i].page)
           THEN /\ browsers' = [browsers EXCEPT ![ops[i].page].url = ops[i].url]
                /\ ops' = [ops EXCEPT ![i].pc = "onLoad"]
           ELSE /\ ops' = [ops EXCEPT ![i] = AfterFetchWithPage([@ EXCEPT !.threw = TRUE])]
                /\ UNCHANGED browsers
        /\ UNCHANGED <<fetcher, initCompleted, pollVars, anfVars, htmlVars, callVars, allVars>>
\* if (onLoad) await onLoad(page)
OnLoad ==
    \E i \in Live, ok \in BOOLEAN :
        /\ ops[i].kind = "fetchHtml" /\ ops[i].pc = "onLoad"
        /\ ops' = [ops EXCEPT ![i] =
              IF ok /\ PageUsable(ops[i].page) THEN [@ EXCEPT !.pc = "content"]
              ELSE AfterFetchWithPage([@ EXCEPT !.threw = TRUE])]
        /\ UNCHANGED <<fetcher, browsers, initCompleted, pollVars, anfVars, htmlVars, callVars, allVars>>
\* return await page.content(): the content of what the page shows now
Content ==
    \E i \in Live, ok \in BOOLEAN :
        /\ ops[i].kind = "fetchHtml" /\ ops[i].pc = "content"
        /\ ops' = [ops EXCEPT ![i] =
              IF ok /\ PageUsable(ops[i].page)
              THEN AfterFetchWithPage([@ EXCEPT !.value = browsers[ops[i].page].url])
              ELSE AfterFetchWithPage([@ EXCEPT !.threw = TRUE])]
        /\ UNCHANGED <<fetcher, browsers, initCompleted, pollVars, anfVars, htmlVars, callVars, allVars>>
\* finally { await context.close() }
FetchCloseContext ==
    \E i \in Live :
        /\ ops[i].kind = "fetchHtml" /\ ops[i].pc = "closeContext"
        /\ browsers' = [browsers EXCEPT ![ops[i].browser].context = "closed"]
        /\ ops' = [ops EXCEPT ![i].pc = "closeBrowser"]
        /\ UNCHANGED <<fetcher, initCompleted, pollVars, anfVars, htmlVars, callVars, allVars>>
\* finally { await browser.close() }, and fetchHtml returns or rethrows
FetchCloseBrowser ==
    \E i \in Live :
        /\ ops[i].kind = "fetchHtml" /\ ops[i].pc = "closeBrowser"
        /\ browsers' = [browsers EXCEPT ![ops[i].browser] = Closed(@)]
        /\ ops' = [ops EXCEPT ![i] = Settle(@)]
        /\ UNCHANGED <<fetcher, initCompleted, pollVars, anfVars, htmlVars, callVars, allVars>>

NextFetcher ==
    \/ CallFetcherInit \/ InitLaunch \/ InitNewContext \/ InitNewPage
    \/ CallDispose \/ DisposeCloseContext \/ DisposeCloseBrowser
    \/ CallFetchHtml \/ FetchLaunch \/ FetchNewContext \/ FetchNewPage
    \/ Goto \/ OnLoad \/ Content \/ FetchCloseContext \/ FetchCloseBrowser
InitFetcher == PollInit /\ AnfIdle /\ HtmlIdle /\ CallIdle /\ FetcherNew /\ AllIdle
SpecFetcher == InitFetcher /\ [][NextFetcher]_vars

\* ------------------------------------- the state store, called directly
(* Any sequence of insertDiscovered, markScraped and markFailed calls on   *)
(* one database, as the store's own tests make them: the url of a mark     *)
(* call need not have a row, and a row of any status may be marked.        *)
MaxCalls == 4
ERROR_MESSAGES == {"", "timeout"}
StoreUnchanged ==
    UNCHANGED <<pc, config, source, articles, scrapeable, todo, result, pending,
                initCalls, initDone, disposeCalls, attempted, wrote, dbAtStart,
                dbAtQuery, anfVars, htmlVars, callVars, fetchVars, allVars>>
StoreInsert ==
    /\ clock < MaxCalls
    /\ \E urls \in SeqsUpTo(URLS, MaxDiscovered), p \in PUBLISHERS :
        db' = insertDiscovered(db, urls, p, clock).db
    /\ clock' = clock + 1
    /\ StoreUnchanged
StoreMarkScraped ==
    /\ clock < MaxCalls
    /\ \E u \in URLS, p \in PUBLISHERS :
        db' = markScraped(db, u, buildOutputPath(p, u), clock)
    /\ clock' = clock + 1
    /\ StoreUnchanged
StoreMarkFailed ==
    /\ clock < MaxCalls
    /\ \E u \in URLS, message \in ERROR_MESSAGES : db' = markFailed(db, u, message)
    /\ clock' = clock + 1
    /\ StoreUnchanged

NextStore == StoreInsert \/ StoreMarkScraped \/ StoreMarkFailed
InitStore == PollInit /\ AnfIdle /\ HtmlIdle /\ CallIdle /\ FetcherNew /\ AllIdle
SpecStore == InitStore /\ [][NextStore]_vars

\* ------------------------------------------------------------- pollAll
(* pollAll(publishers, getSource, db): the for loop over the publishers,   *)
(* each `await pollPublisher(...)` being a run of the actions above. A     *)
(* publisher is given by its id and by whether getSource knows its source. *)
PublisherLists ==
    {l \in SeqsUpTo([id : PUBLISHERS, known : BOOLEAN], Cardinality(PUBLISHERS)) :
        \A i, j \in DOMAIN l : l[i].id = l[j].id => i = j}
PollAllUnchanged == UNCHANGED <<pollVars, anfVars, htmlVars, callVars, fetchVars>>
AddTotals(totals, r) ==
    [discovered |-> totals.discovered + r.discovered,
     scraped |-> totals.scraped + r.scraped,
     failed |-> totals.failed + r.failed,
     skipped |-> totals.skipped + r.skipped]

\* pollAll is called: `const results = []`, `const totals = {...}`
PollAllStart ==
    /\ all.pc \in {"idle", "returned", "rejected"}
    /\ clock + Cardinality(PUBLISHERS) <= MaxRuns
    /\ \E l \in PublisherLists :
        all' = [pc |-> "loop", publishers |-> l, idx |-> 1, results |-> <<>>,
                totals |-> EmptyTotals]
    /\ PollAllUnchanged
\* `if (!source) { ...; continue }`
PollAllSkip ==
    /\ all.pc = "loop"
    /\ all.idx <= Len(all.publishers)
    /\ ~all.publishers[all.idx].known
    /\ all' = [all EXCEPT !.idx = @ + 1]
    /\ PollAllUnchanged
\* `pollPublisher(config, source, db, baseDir)` is called
PollAllCall ==
    /\ all.pc = "loop"
    /\ all.idx <= Len(all.publishers)
    /\ all.publishers[all.idx].known
    /\ \E hasScrapeArticles \in BOOLEAN :
        StartRun(all.publishers[all.idx].id, hasScrapeArticles)
    /\ all' = [all EXCEPT !.pc = "polling"]
\* `const result = await pollPublisher(...)` resolved: results.push, totals
PollAllCollect ==
    /\ all.pc = "polling"
    /\ pc = "returned"
    /\ all' = [all EXCEPT !.pc = "loop", !.idx = @ + 1,
                          !.results = Append(@, result),
                          !.totals = AddTotals(@, result)]
    /\ PollAllUnchanged
\* `await pollPublisher(...)` rejected: nothing in pollAll catches it
PollAllRejects ==
    /\ all.pc = "polling"
    /\ pc = "rejected"
    /\ all' = [all EXCEPT !.pc = "rejected"]
    /\ PollAllUnchanged
\* `return { results, totals }`
PollAllReturn ==
    /\ all.pc = "loop"
    /\ all.idx > Len(all.publishers)
    /\ all' = [all EXCEPT !.pc = "returned"]
    /\ PollAllUnchanged

NextPollAll ==
    \/ PollAllStart \/ PollAllSkip \/ PollAllCall
    \/ CallInit \/ DiscoverThrows \/ Discover \/ ScrapeOne \/ Dispose
    \/ PollAllCollect \/ PollAllRejects \/ PollAllReturn
InitPollAll == PollInit /\ AnfIdle /\ HtmlIdle /\ CallIdle /\ FetcherNew /\ AllIdle
SpecPollAll == InitPollAll /\ [][NextPollAll]_vars

\* ------------------------------------------------- claims: poll pipeline
\* rows of this publisher that were 'failed' when the run started
FailedAtStart ==
    {u \in DOMAIN dbAtStart :
        dbAtStart[u].publisherId = config /\ dbAtStart[u].status = "failed"}
\* rows the run found scrapeable: 'discovered' or 'failed', of this publisher
ScrapeableRows ==
    {u \in DOMAIN dbAtQuery :
        /\ dbAtQuery[u].publisherId = config
        /\ dbAtQuery[u].status \in {"discovered", "failed"}}
\* the run got past init() and scrapeArticles()
DiscoveryCompleted ==
    source.disc = "yes" /\ (source.init = "yes" => initDone) /\ ~pending
ErrorsFor(u) == Cardinality({i \in DOMAIN result.errors : result.errors[i][1] = u})

\* C1: once a URL has status 'scraped', no later step of any run calls
\* scrapeArticle for it or writes its output again.
C1_ScrapedNeverScrapedAgain ==
    [][\A u \in DOMAIN db :
          db[u].status = "scraped" =>
              attempted'[u] <= attempted[u] /\ wrote'[u] <= wrote[u]]_vars
\* a later run whose discovery returned an already scraped URL and left it alone
C1_Witness ==
    /\ pc = "returned"
    /\ \E u \in DOMAIN dbAtStart :
        /\ dbAtStart[u].status = "scraped"
        /\ dbAtStart[u].publisherId = config
        /\ u \in Range(articles)
        /\ attempted[u] = 0
        /\ db[u] = dbAtStart[u]

C3_EveryRowAttemptedOnce ==
    (pc = "returned" /\ source.disc = "yes") =>
        /\ \A u \in URLS : attempted[u] = IF u \in ScrapeableRows THEN 1 ELSE 0
        /\ result.scraped + result.failed = Cardinality(ScrapeableRows)
        /\ Len(result.errors) = result.failed
        /\ \A u \in URLS :
            ErrorsFor(u) = IF u \in ScrapeableRows /\ wrote[u] = 0 THEN 1 ELSE 0
\* a run in which two rows failed: the second was attempted after a failure
C3_Witness ==
    /\ pc = "returned"
    /\ Cardinality(ScrapeableRows) = 2
    /\ result.failed = 2
    /\ Len(result.errors) = 2

\* C4: source.dispose is called at most once per run; a run that ended
\* after init() completed went through the finally block and called
\* dispose() exactly once (when the source defines it); a run on a source
\* without scrapeArticles read neither init nor dispose and left the
\* database as it was.
C4_DisposeOnceAfterInit ==
    /\ disposeCalls <= 1
    /\ (Ended /\ initDone) =>
          source.disp # "unread" /\ (source.disp = "yes" => disposeCalls = 1)
    /\ (Ended /\ source.disc = "no") =>
          /\ initCalls = 0
          /\ disposeCalls = 0
          /\ source.init = "unread"
          /\ source.disp = "unread"
          /\ db = dbAtStart
\* discovery threw after init() completed and dispose() was still called
C4_Witness ==
    /\ pc = "rejected"
    /\ pending
    /\ initDone
    /\ disposeCalls = 1


\* ------------------------------------------------ claims: ANF transformer
Dropped(c) == transformComponent(c).result = None
AllDropped == \A i \in DOMAIN article.body : Dropped(article.body[i])

\* C5 as stated: whenever every body component is dropped, transformToAnf
\* throws and returns no document.
C5_AllDroppedThrows ==
    (anfPc \in {"returned", "threw"} /\ AllDropped) => (anfPc = "threw" /\ anfOut = None)
\* C5 amended: whenever every body component is dropped and the article has
\* no thumbnail url, transformToAnf throws and returns no document.
C5_AllDroppedNoThumbnailThrows ==
    (anfPc \in {"returned", "threw"} /\ AllDropped /\ ~HasThumbnailUrl(article)) =>
        (anfPc = "threw" /\ anfOut = None)
\* a titled article without thumbnail whose body is rawHtml only was rejected
C5_Witness ==
    /\ anfPc = "threw"
    /\ Len(article.body) >= 1
    /\ AllDropped
    /\ Len(article.title) >= 1
    /\ ~HasThumbnailUrl(article)

\* C6: transformComponent returns a result, or no result and at least one
\* warning, for each of the 14 variants and every field value.
C6_ResultOrWarning ==
    compPc = "returned" =>
        /\ DOMAIN compOut = {"result", "warnings"}
        /\ compOut.result # None \/ Len(compOut.warnings) >= 1
\* a rawHtml component gave no result and one warning
C6_Witness ==
    /\ compPc = "returned"
    /\ component.type = "rawHtml"
    /\ compOut.result = None
    /\ Len(compOut.warnings) = 1

\* the number of components the header photo contributes
HeaderLen == IF HasThumbnailUrl(article) THEN 1 ELSE 0
\* the number of body components among the first i that are not dropped
KeptUpTo(i) == Cardinality({m \in 1..i : ~Dropped(article.body[m])})
Assembled == anfPc \in {"assembled", "returned"}

\* C7: the body-derived components of the document are the transformed
\* non-dropped body components, one each, in the order of the body.
C7_BodyOrderKept ==
    Assembled =>
        LET comps == anfOut[1].document.components
        IN /\ Len(comps) = HeaderLen + KeptUpTo(Len(article.body))
           /\ \A i \in DOMAIN article.body :
                ~Dropped(article.body[i]) =>
                    comps[HeaderLen + KeptUpTo(i)]
                        = WithLayout(transformComponent(article.body[i]).result[1])
\* a header photo, then a kept, a dropped and another kept component
C7_Witness ==
    /\ anfPc = "returned"
    /\ HeaderLen = 1
    /\ Len(article.body) = 3
    /\ ~Dropped(article.body[1])
    /\ Dropped(article.body[2])
    /\ ~Dropped(article.body[3])
    /\ article.body[1] # article.body[3]
    /\ Len(anfOut[1].document.components) = 3

\* the number of warnings the first i body components give
RECURSIVE WarningsUpTo(_)
WarningsUpTo(i) ==
    IF i = 0 THEN 0
    ELSE WarningsUpTo(i - 1) + Len(transformComponent(article.body[i]).warnings)
OfType(ws, type) == Cardinality({k \in DOMAIN ws : ws[k].type = type})

\* C8: the warnings of the document are the components' warnings
\* concatenated in body order; a rawHtml component gives exactly one
\* dropped_component, an embed of platform 'other' exactly one
\* unsupported_embed, and no other component gives either.
C8_WarningsInBodyOrder ==
    Assembled =>
        LET ws == anfOut[1].warnings
        IN /\ Len(ws) = WarningsUpTo(Len(article.body))
           /\ \A i \in DOMAIN article.body :
                LET c == article.body[i]
                    mine == SubSeq(ws, WarningsUpTo(i - 1) + 1, WarningsUpTo(i))
                IN /\ mine = transformComponent(c).warnings
                   /\ OfType(mine, "dropped_component")
                        = IF c.type = "rawHtml" THEN 1 ELSE 0
                   /\ OfType(mine, "unsupported_embed")
                        = IF c.type = "embed" /\ c.platform = "other" THEN 1 ELSE 0
\* an embed of platform 'other' before a rawHtml: two warnings in that order
C8_Witness ==
    /\ anfPc = "returned"
    /\ Len(article.body) >= 2
    /\ article.body[1].type = "embed"
    /\ article.body[2].type = "rawHtml"
    /\ Len(anfOut[1].warnings) >= 2
    /\ anfOut[1].warnings[1].type = "unsupported_embed"
    /\ anfOut[1].warnings[2].type = "dropped_component"

\* ------------------------------------------------ claims: sanitizeHtml
\* C9: sanitizeHtml is idempotent: sanitizing the output of sanitizeHtml
\* gives that output back.
C9_SanitizeIdempotent == htmlPc = "twice" => out2 = out1

\* C10: every element of the output of sanitizeHtml has a tag of the
\* allowlist.
C10_OutputTagsAllowed ==
    htmlPc \in {"once", "twice"} =>
        \A i \in DOMAIN out1 : out1[i].k # "text" => out1[i].tag \in ALLOWED_TAGS

\* C11: in the output of sanitizeHtml no element other than <a> carries an
\* attribute, and an <a> carries at most href.
C11_OnlyHrefOnAnchors ==
    htmlPc \in {"once", "twice"} =>
        \A i \in DOMAIN out1 :
            out1[i].k # "text" =>
                {at[1] : at \in out1[i].attrs}
                    \subseteq (IF out1[i].tag = "a" THEN {"href"} ELSE {})

\* ------------------------------------------- claims: component transformers
\* C12: a paragraph or heading of format html gives exactly one
\* html_sanitized warning if and only if sanitizeHtml changes its text, and
\* its text in the result is the sanitized text; for any other format there
\* is no html_sanitized warning and the text is the input text.
C12_SanitizedWarningIffChanged ==
    (compPc = "returned" /\ component.type \in {"paragraph", "heading"}) =>
        LET emitted == compOut.result[1].text
            n == OfType(compOut.warnings, "html_sanitized")
        IN IF component.format = "html"
           THEN /\ emitted = sanitizeHtml(component.text)
                /\ n = (IF sanitizeHtml(component.text) # component.text THEN 1 ELSE 0)
           ELSE /\ emitted = component.text
                /\ n = 0
\* an html heading whose text the sanitizer changed, with its one warning
C12_Witness ==
    /\ compPc = "returned"
    /\ component.type = "heading"
    /\ component.format = "html"
    /\ compOut.result[1].text # component.text
    /\ Len(compOut.warnings) = 1
    /\ compOut.warnings[1].type = "html_sanitized"

\* ------------------------------------------------- claims: buildIdentifier
\* the url the document is built from
ChosenUrl == IF arg.canonicalUrl # None THEN arg.canonicalUrl[1] ELSE arg.url
\* slug is the last non-empty segment of path: a run without '/' that starts
\* the path or follows a '/', and after which the path holds only '/'
IsLastSegment(slug, path) ==
    \E i \in DOMAIN path : \E j \in i..Len(path) :
        /\ slug = SubSeq(path, i, j)
        /\ \A k \in i..j : path[k] # "/"
        /\ i = 1 \/ path[i - 1] = "/"
        /\ \A k \in (j + 1)..Len(path) : path[k] = "/"
IsSlugOf(slug, u) ==
    IF IsAbsolute(u) /\ \E k \in DOMAIN pathname(u) : pathname(u)[k] # "/"
    THEN IsLastSegment(slug, pathname(u))
    ELSE slug = ARTICLE

\* C13: the identifier is the first 64 characters of publisherId, '-' and the
\* last non-empty path segment of the canonical url when present, else of
\* the source url ('article' when there is no segment or the url does not
\* parse); its length is between 1 and 64.
C13_IdentifierFromSlug ==
    (fn = "buildIdentifier" /\ ret # <<>>) =>
        /\ ret.ok
        /\ Len(ret.value) >= 1
        /\ Len(ret.value) <= 64
        /\ \E slug \in {SubSeq(ChosenUrl, i, j) : i, j \in 1..Len(ChosenUrl)} \cup {ARTICLE} :
              /\ IsSlugOf(slug, ChosenUrl)
              /\ LET raw == arg.publisherId \o <<"-">> \o slug
                 IN /\ Len(ret.value) = Min2(64, Len(raw))
                    /\ \A k \in DOMAIN ret.value : ret.value[k] = raw[k]
\* a canonical url with a trailing slash, its identifier cut at 64 characters
C13_Witness ==
    /\ fn = "buildIdentifier"
    /\ ret # <<>>
    /\ arg.canonicalUrl = Some(<<ORIGIN, "/", "a", "b", "/">>)
    /\ Len(arg.publisherId) = 62
    /\ Len(ret.value) = 64
    /\ ret.value[64] = "a"

\* ---------------------------------------------------- claims: parseArticle
\* the page lacks the structured-data block or the content container
AnchorAbsent ==
    IF fn = "ghost.parseArticle"
    THEN ~arg.jsonLd \/ arg.containers = <<>>
    ELSE arg.nextData # "article" \/ arg.article.content = None

\* C14: parseArticle of the Ghost and of the ITV News parser throws when the
\* structured-data block or the content container is absent from the page.
C14_ThrowsWithoutAnchor ==
    (fn \in {"ghost.parseArticle", "itv-news.parseArticle"} /\ ret # <<>> /\ AnchorAbsent)
        => ~ret.ok

\* --------------------------------------------------- claims: parseArticles
\* the cards (Ghost), items (ITV __NEXT_DATA__) or anchors (ITV DOM fallback)
\* the call visited, in the order visited: the absolute url each one's link
\* resolves to, if it has a link, and the entry it gives, if it gives one
VisitedItems == BySection(arg.items)
ItemUrl(item) ==
    IF ~Truthy(item.link) THEN None
    ELSE Some(<<ITV_ORIGIN, "/">>
              \o (IF item.section = "latest" THEN <<"news/">> ELSE <<>>) \o item.link[1])
Visited ==
    IF fn = "ghost.parseArticles"
    THEN [i \in DOMAIN arg.cards |->
            [url |-> IF Truthy(arg.cards[i].href)
                     THEN Some(Resolve(arg.cards[i].href[1], GHOST_HOME)) ELSE None,
             entry |-> extractCard(arg.cards[i], GHOST_HOME)]]
    ELSE IF arg.nextData /\ \E i \in DOMAIN VisitedItems : addItem(VisitedItems[i]) # None
    THEN [i \in DOMAIN VisitedItems |->
            [url |-> ItemUrl(VisitedItems[i]), entry |-> addItem(VisitedItems[i])]]
    ELSE [i \in DOMAIN arg.anchors |->
            [url |-> IF arg.anchors[i].href = <<>> THEN None
                     ELSE Some(Resolve(arg.anchors[i].href, <<ITV_ORIGIN>>)),
             entry |-> domAnchor(arg.anchors[i])]]
Discovered == fn \in {"ghost.parseArticles", "itv-news.parseArticles"} /\ ret # <<>> /\ ret.ok
First(S) == CHOOSE i \in S : \A j \in S : i <= j
DistinctAbsolute ==
    /\ \A i, j \in DOMAIN ret.value : i # j => ret.value[i].url # ret.value[j].url
    /\ \A i \in DOMAIN ret.value : ret.value[i].url[1] \in ORIGINS

\* C15 as stated: the urls returned are pairwise distinct and absolute, and
\* each entry comes from the first card in document order whose link
\* resolves to its url.
C15_FirstCardKept ==
    Discovered =>
        /\ DistinctAbsolute
        /\ \A e \in DOMAIN ret.value :
              Visited[First({i \in DOMAIN Visited : Visited[i].url = Some(ret.value[e].url)})].entry
                  = Some(ret.value[e])
\* C15 amended: the urls returned are pairwise distinct and absolute; each
\* entry comes from the first card in document order, among the cards that
\* give an entry, with its url; every card that gives an entry has its url
\* returned, and the entries are in the order of these first cards.
C15_FirstAcceptedCardKept ==
    Discovered =>
        LET Accepted(u) ==
                {i \in DOMAIN Visited :
                    Visited[i].entry # None /\ Visited[i].entry[1].url = u}
        IN /\ DistinctAbsolute
           /\ \A e \in DOMAIN ret.value :
                 /\ Accepted(ret.value[e].url) # {}
                 /\ Visited[First(Accepted(ret.value[e].url))].entry = Some(ret.value[e])
           /\ \A i \in DOMAIN Visited :
                 Visited[i].entry # None =>
                     \E e \in DOMAIN ret.value : ret.value[e].url = Visited[i].entry[1].url
           /\ \A e, f \in DOMAIN ret.value :
                 e < f => First(Accepted(ret.value[e].url)) < First(Accepted(ret.value[f].url))
\* three Ghost cards with links "/a", "a" and the absolute form of the same
\* url, all titled: one entry, with the title of the first
C15_Witness ==
    /\ fn = "ghost.parseArticles"
    /\ ret # <<>>
    /\ ret.ok
    /\ Len(arg.cards) = 3
    /\ arg.cards[1].href = Some(<<"/", "a">>)
    /\ arg.cards[2].href = Some(<<"a">>)
    /\ arg.cards[3].href = Some(<<ORIGIN, "/", "a">>)
    /\ arg.cards[1].title = Str("t1")
    /\ arg.cards[2].title = Str("t2")
    /\ arg.cards[3].title = Str("t2")
    /\ ret.value = <<Entry(<<ORIGIN, "/", "a">>, Str("t1"))>>

\* ------------------------------------------------- claims: validateArticle
\* C16: validateArticle throws when the title is empty, the body is empty or
\* a body component matches none of the 14 variant shapes; otherwise it
\* returns the whole document, every component as it was given.
C16_WholeDocumentOrThrow ==
    (fn = "validateArticle" /\ ret # <<>>) =>
        IF \/ arg.title = <<>>
           \/ arg.body = <<>>
           \/ \E i \in DOMAIN arg.body : ~ComponentAccepted(arg.body[i])
        THEN ~ret.ok
        ELSE ret.ok /\ ret.value = arg

AnchorTo(u) == <<Open("a", {<<"href", u>>})>> \o u \o <<Close("a")>>
EmbedReturned == compPc = "returned" /\ component.type = "embed"
\* what an embed of platform 'other' gives, given whether its fallbackText counts
OtherEmbedGives(hasFallback) ==
    /\ compOut.result # None
    /\ compOut.result[1].role = "body"
    /\ Len(compOut.warnings) = 1
    /\ compOut.warnings[1].type = "unsupported_embed"
    /\ IF hasFallback
       THEN /\ compOut.result[1].text = component.fallbackText[1]
            /\ "format" \notin DOMAIN compOut.result[1]
       ELSE /\ compOut.result[1].text = AnchorTo(component.embedUrl)
            /\ compOut.result[1].format = "html"

\* C18 as stated: an embed of platform 'other' gives a body component and one
\* unsupported_embed warning, with fallbackText as its text and no format
\* when fallbackText is present, and the anchor to the embed url with format
\* html otherwise; the seven named platforms give no warning.
C18_OtherEmbedFallbackPresent ==
    EmbedReturned =>
        IF component.platform = "other"
        THEN OtherEmbedGives(component.fallbackText # None)
        ELSE compOut.result # None /\ compOut.warnings = <<>>
\* C18 amended: as above, with fallbackText as the text when it is present
\* and not the empty string, and the anchor when it is absent or empty.
C18_OtherEmbedFallbackNonEmpty ==
    EmbedReturned =>
        IF component.platform = "other"
        THEN OtherEmbedGives(component.fallbackText # None /\ component.fallbackText[1] # <<>>)
        ELSE compOut.result # None /\ compOut.warnings = <<>>
\* an embed of platform 'other' with a fallbackText gave that text, no format
C18_Witness ==
    /\ EmbedReturned
    /\ component.platform = "other"
    /\ component.fallbackText = Some(Str("s"))
    /\ compOut.result[1].text = Str("s")
    /\ "format" \notin DOMAIN compOut.result[1]
    /\ Len(compOut.warnings) = 1

\* ------------------------------------------------- claims: ensureIso
\* a date and time with Z, with an offset `+HH:mm`, or with no zone
IsZonedOrBare(date) ==
    /\ date \in DateTimes
    /\ date[Len(date)].k = "offset" => date[Len(date)].colon
\* the instant such a string denotes, one with no zone being read as UTC
Denotes(date) ==
    LET last == date[Len(date)]
        ms == IF Len(date) >= 4 /\ date[4].k = "frac" THEN date[4].ms ELSE 0
        wall == (date[1].day * 1440 + date[3].min) * 60000 + ms
    IN IF last.k = "offset" THEN wall - last.min * 60000 ELSE wall

\* C19: two date strings that denote the same instant, each with a Z
\* suffix, with a numeric offset or with no zone, are given the same output
\* string by ensureIso, and every string ensureIso returns is a datetime
\* the validator of the intermediary document accepts.
C19_OneRepresentation ==
    /\ \A i \in DOMAIN ret : ret[i].ok => DatetimeAccepts(ret[i].value)
    /\ (/\ fn = "ensureIso"
        /\ Len(ret) = 2
        /\ IsZonedOrBare(arg.dates[1]) /\ IsZonedOrBare(arg.dates[2])
        /\ Denotes(arg.dates[1]) = Denotes(arg.dates[2]))
       => ret[1].ok /\ ret[2].ok /\ ret[1].value = ret[2].value

\* ------------------------------------------------- claims: row status
STATUS_TRANSITIONS ==
    {<<"discovered", "scraped">>, <<"discovered", "failed">>,
     <<"failed", "scraped">>, <<"failed", "failed">>}

\* C20: in every step of every run, a row that is written goes from
\* 'discovered' to 'scraped' or 'failed', or from 'failed' to 'scraped' or
\* 'failed'; a 'scraped' row is never written again, no row is removed, and
\* only a new row gets the status 'discovered'.
C20_StatusTransitions ==
    [][/\ \A u \in DOMAIN db :
            /\ u \in DOMAIN db'
            /\ db'[u] # db[u] => <<db[u].status, db'[u].status>> \in STATUS_TRANSITIONS
       /\ \A u \in DOMAIN db' \ DOMAIN db : db'[u].status = "discovered"]_vars
\* a run that left a failed row failed after a retry and took a row it
\* inserted itself from 'discovered' to 'scraped'
C20_Witness ==
    /\ pc = "returned"
    /\ \E u \in DOMAIN dbAtStart :
        dbAtStart[u].status = "failed" /\ attempted[u] = 1 /\ db[u].status = "failed"
    /\ \E v \in DOMAIN db \ DOMAIN dbAtStart :
        dbAtQuery[v].status = "discovered" /\ db[v].status = "scraped"

\* ------------------------------------------------- claims: insertDiscovered
\* C21: once the run's insertDiscovered has run, every row that existed
\* before it is exactly as it was (status, publisherId, discoveredAt,
\* scrapedAt, error, outputPath), whatever its status and publisher, and
\* the change count is the number of urls that had no row.
C21_InsertLeavesExistingRows ==
    (pc \in {"scrape", "dispose"} /\ ~pending /\ attempted = NoCalls) =>
        /\ \A u \in DOMAIN dbAtStart : u \in DOMAIN db /\ db[u] = dbAtStart[u]
        /\ result.discovered = Cardinality(Range(articles) \ DOMAIN dbAtStart)
        /\ DOMAIN db = DOMAIN dbAtStart \cup Range(articles)
\* discovery returned a url whose row was scraped by the other publisher,
\* next to a new url
C21_Witness ==
    /\ pc \in {"scrape", "dispose"} /\ ~pending /\ attempted = NoCalls
    /\ result.discovered = 1
    /\ \E u \in Range(articles) \cap DOMAIN dbAtStart :
        /\ dbAtStart[u].status = "scraped"
        /\ dbAtStart[u].publisherId # config
        /\ db[u] = dbAtStart[u]

\* ------------------------------------------------- claims: the fetcher
FetchCalls == {i \in DOMAIN ops : ops[i].kind = "fetchHtml"}
LaunchedBy(i) == {b \in DOMAIN browsers : browsers[b].by = i}
Completed(i) == ops[i].pc \in {"resolved", "rejected"}

\* C22: a fetchHtml call made after an init() resolved and before the next
\* dispose() call uses the shared page and launches no browser; a call made
\* when there is no shared page has, once it completed, closed the browser
\* it launched and that browser's context, whether it returned or threw.
C22_SharedPageOrTemporaryBrowser ==
    \A i \in FetchCalls :
        /\ ops[i].afterInit => ops[i].shared /\ LaunchedBy(i) = {}
        /\ (~ops[i].shared /\ Completed(i)) =>
              \A b \in LaunchedBy(i) :
                  ~browsers[b].open /\ browsers[b].context # "open"


\* C27: a fetchHtml(url) call that returns, returns the content of the page
\* loaded for its own url, whatever other fetchHtml calls were in flight on
\* the shared page meanwhile.
C27_ContentOfOwnUrl ==
    \A i \in FetchCalls : ops[i].pc = "resolved" => ops[i].value = ops[i].url

\* ------------------------------------------------- claims: markScraped
\* rows this run marked 'scraped'
ScrapedInThisRun ==
    {u \in DOMAIN db :
        /\ db[u].status = "scraped"
        /\ u \in DOMAIN dbAtStart => dbAtStart[u].status # "scraped"}

\* C23: a row the run marked 'scraped' is one whose article writeArticle
\* validated and wrote in this run; a row the run attempted whose scrape,
\* validation or write failed is 'failed', with the failure's message as its
\* error and in the run's errors, and was not marked 'scraped'.
C23_ScrapedOnlyAfterWrite ==
    /\ \A u \in ScrapedInThisRun : attempted[u] = 1 /\ wrote[u] = 1
    /\ \A u \in URLS :
        (attempted[u] >= 1 /\ wrote[u] = 0) =>
            /\ u \in DOMAIN db
            /\ db[u].status = "failed"
            /\ db[u].scrapedAt # <<clock>>
            /\ db[u].error # NULL
            /\ <<u, db[u].error[1]>> \in Range(result.errors)
\* a run in which one article failed validation and another was written
C23_Witness ==
    /\ pc = "returned"
    /\ \E u, v \in DOMAIN db :
        /\ attempted[u] = 1 /\ wrote[u] = 0
        /\ db[u].status = "failed" /\ db[u].error = <<"validation failed">>
        /\ v \in ScrapedInThisRun /\ wrote[v] = 1

\* ------------------------------------------------- claims: row columns
\* C24: after any sequence of insertDiscovered, markScraped and markFailed
\* calls, a 'scraped' row has no error and has an outputPath and a
\* scrapedAt, a 'failed' row has an error, and a 'discovered' row has no
\* error, no outputPath and no scrapedAt.
C24_ColumnsFollowStatus ==
    \A u \in DOMAIN db :
        /\ db[u].status = "scraped" =>
              db[u].error = NULL /\ db[u].outputPath # NULL /\ db[u].scrapedAt # NULL
        /\ db[u].status = "failed" => db[u].error # NULL
        /\ db[u].status = "discovered" =>
              db[u].error = NULL /\ db[u].outputPath = NULL /\ db[u].scrapedAt = NULL
\* a scraped row, next to a row that was marked failed after it had been
\* scraped: it is 'failed' and keeps its outputPath
C24_Witness ==
    \E u, v \in DOMAIN db :
        /\ db[u].status = "scraped" /\ db[u].error = NULL /\ db[u].scrapedAt # NULL
        /\ db[v].status = "failed" /\ db[v].outputPath # NULL

\* ------------------------------------------------- claims: skipped
\* the entries of this run's discovery whose url the run did not attempt
NotAttempted == {i \in DOMAIN articles : attempted[articles[i]] = 0}

\* C25: a run that returns reports a skipped count that is not negative and
\* is the number of articles its discovery returned that it did not attempt.
C25_SkippedCountsUnattempted ==
    (pc = "returned" /\ source.disc = "yes") =>
        result.skipped >= 0 /\ result.skipped = Cardinality(NotAttempted)

\* ------------------------------------------------- claims: pollAll
RECURSIVE SumResults(_, _)
SumResults(results, i) ==
    IF i > Len(results) THEN EmptyTotals
    ELSE AddTotals(SumResults(results, i + 1), results[i])
KnownPublishers == SelectSeq(all.publishers, LAMBDA c : c.known)

\* C26: a pollAll call never ends by rejecting because init() or discovery
\* failed for one publisher: it goes on to the remaining publishers and
\* returns a summary whose totals are the sums of the results, with one
\* result for each publisher whose source is known, in order, and none for
\* the others.
C26_PollAllReturnsSummary ==
    /\ all.pc # "rejected"
    /\ all.pc = "returned" =>
          /\ all.totals = SumResults(all.results, 1)
          /\ Len(all.results) = Len(KnownPublishers)
          /\ \A i \in DOMAIN all.results :
                all.results[i].publisherId = KnownPublishers[i].id

\* ------------------------------------------- claims: the validated article
\* C28: the document validateArticle returns for an article it accepts is
\* the article given, every field of every component included (the width
\* and height of an image too), so that writeArticle writes what was scraped.
C28_ValidatedEqualsInput ==
    (fn = "validateArticle" /\ ret # <<>> /\ ret.ok) =>
        /\ Len(ret.value.body) = Len(arg.body)
        /\ \A i \in DOMAIN arg.body :
            /\ DOMAIN ret.value.body[i] = DOMAIN arg.body[i]
            /\ ret.value.body[i] = arg.body[i]
        /\ ret.value = arg

\* ------------------------------------------------- claims: style names
\* C29: in the document assembleDocument produced, the textStyle of every
\* component and of every photo's caption descriptor is a name of
\* componentTextStyles, and the layout of every component, the header
\* photo's included, is a name of componentLayouts.
C29_ReferencedNamesAreDefined ==
    anfOut # None =>
        \A i \in DOMAIN anfOut[1].document.components :
            LET c == anfOut[1].document.components[i]
            IN /\ "textStyle" \in DOMAIN c =>
                      c.textStyle \in anfOut[1].document.componentTextStyles
               /\ (c.role = "photo" /\ "caption" \in DOMAIN c) =>
                      c.caption.textStyle \in anfOut[1].document.componentTextStyles
               /\ "layout" \in DOMAIN c =>
                      c.layout \in anfOut[1].document.componentLayouts
\* a document with the header photo, a heading of level 7 given the style and
\* layout of heading6, and a photo with a caption descriptor
C29_Witness ==
    /\ anfOut # None
    /\ Len(anfOut[1].document.components) = 3
    /\ anfOut[1].document.components[1].layout = "headerPhotoLayout"
    /\ anfOut[1].document.components[2].role = "heading6"
    /\ anfOut[1].document.components[2].textStyle = "default-heading-6"
    /\ anfOut[1].document.components[2].layout = "headingLayout"
    /\ anfOut[1].document.components[3].role = "photo"
    /\ anfOut[1].document.components[3].caption.textStyle = "default-caption"

\* ------------------------------------------------- claims: emitted html
\* C30: every component transformComponent emits with format html has a
\* text whose tags are all on the sanitizer's allowlist, whatever markup
\* the input's text, list items or embed url carry.
C30_EmittedHtmlTagsAllowed ==
    (/\ compPc = "returned"
     /\ compOut.result # None
     /\ "format" \in DOMAIN compOut.result[1]
     /\ compOut.result[1].format = "html") =>
            \A i \in DOMAIN compOut.result[1].text :
                compOut.result[1].text[i].k # "text" =>
                    compOut.result[1].text[i].tag \in ALLOWED_TAGS
====
